---- MODULE Spec2Model ----
(***************************************************************************)
(* Model of the userbase server's realtime core (src/unnamed/part_000):    *)
(* the connection registry (Connections.register / close), the seed        *)
(* exchange mediator (sendSeedRequest / sendSeed), and the push pipeline   *)
(* (Connection.push, rollback, sendPayload, Connections.push fan-out);     *)
(* and of the client's handler of ApplyTransactions messages               *)
(* (src/unnamed/part_001, ws.onmessage).                                   *)
(*                                                                         *)
(* JavaScript runs one callback at a time: a handler runs without          *)
(* interruption up to its next await.  Every action below is one such      *)
(* uninterrupted run; the awaits (bundle fetch, range query, conditional   *)
(* put) are the boundaries between the actions of one push.                *)
(***************************************************************************)
EXTENDS Integers, Sequences, FiniteSets, TLC

\* ---------------------------------------------------------------- bounds
MaxConn == 2        \* connection objects ever created
MaxSeq == 3         \* highest sequence number the writer assigns
\* the pushes that can be in flight together, and the calls of
\* Connections.openDatabase in one behaviour
PushIds == {1, 2}
MaxPushes == Cardinality(PushIds)
MaxOpens == MaxPushes
PageSize == 2       \* items one range-query page holds
MaxMsgs == 3        \* ApplyTransactions messages the client receives for D

Users == {"u1", "u2"}
ClientIds == {"a", "b", "c"}
PubKeys == {"k1", "k2"}
\* the public key of the validated device that answers a seed request
SenderKey == "ks"
ConnIds == 1..MaxConn
SeqNos == 1..MaxSeq

\* the last instant of the clock of the sessions, in half days
MaxNow == 4

\* ------------------------------------------------------ program constants
TRANSACTION_SIZE_BUNDLE_TRIGGER == 1024 * 50
\* reopenAtSeqNo === undefined
NoReopen == -1
\* this.requesterPublicKey === undefined
NoKey == "undefined"
\* what estimateSizeOfDdbItem answers for the item with sequence-no n (the estimator
\* is an opaque function of the item): two items of 25600 meet the trigger exactly
ItemSize(n) == IF n % 3 = 0 THEN 30000 ELSE 25600

VARIABLES
  sockets,        \* Connections.sockets: userId -> set of connection ids (keys present only)
  uniqueClients,  \* Connections.uniqueClients: the clientIds marked true
  conns,          \* the Connection objects ever constructed, by id
  nextConnId,     \* the id the next Connection gets (uuidv4 is fresh)
  lastOp,         \* ghost: the last registry / seed operation, its result and what it emitted
  databases,      \* conn.databases[D] of each Connection, for the one database D
  log,            \* the transactions table of D: sequence-no -> item
  pendingFan,     \* sequence numbers put by the writer whose Connections.push has not run yet
  bundleAt,       \* the bundle-seq-no stored for D (0: none)
  pushes,         \* the Connection.push calls in flight, oldest first, each at an await
  opens,          \* ghost: Connections.openDatabase calls so far
  delivered,      \* ghost: per connection, the seqNos of all messages sent for D, concatenated
  lastSent,       \* ghost: per connection, the last message socket.send was given for D
  warned,         \* ghost: the warnings of a rejected register and of push's re-checks,
                  \* each with the close code its socket was given ("": not closed)
  applyTransactionsQueue,  \* client: database.applyTransactionsQueue of D
  handlers,       \* client: the ws.onmessage call of each ApplyTransactions message for D
  dbKey,          \* client: database.dbKey is set
  started,        \* ghost: the messages whose handler passed the queue, in that order
  users,          \* the users table: the item of the one (username, app-id) key
  userOf,         \* per connection, the user object its validateKey calls are given
  issued,         \* how many user ids uuidv4() has handed to signUp
  overwritten,    \* ghost: the user ids whose unsaved item a later signUp replaced
  seedSaved,      \* ghost: the user ids whose userSavedSeed update succeeded
  seedExchange,   \* the SeedExchange table: the items of DbOwner, by requester-public-key
  seedCalls,      \* per connection, its requestSeed / sendSeed call of user.js: where it
                  \* is, what the store answered, and what it returned
  sentSeedTo,     \* client of each connection: this.sentSeedTo
  processingSeedRequest,  \* client of each connection: this.processingSeedRequest
  inbox,          \* client of each connection: the sendSeed(requesterPublicKey) calls
                  \* started by ReceiveRequestForSeed messages and query results
  obtained,       \* ghost: per connection, the encrypted seeds its client was given
  sessions,       \* the sessions table: session-id -> item
  issuedSessions, \* how many session ids createSession has generated
  now,            \* what new Date() returns, in half days
  authCalls,      \* the authenticateUser call of each request in flight: where it is,
                  \* what the store answered, and how it ended (ghosts: late, the
                  \* session id was signed out when the call began; gone, the user
                  \* was deleted when the call began; at, the instant of the checks)
  signOutCalls,   \* per session id, what the store answered the signOut call in flight
  signedOut       \* ghost: the session ids whose signOut answered Success

regVars == <<sockets, uniqueClients, conns, nextConnId, lastOp>>
pipeVars == <<databases, log, pendingFan, bundleAt, pushes, opens, delivered, lastSent, warned>>
clientVars == <<applyTransactionsQueue, handlers, dbKey, started>>
userVars == <<users, userOf, issued, overwritten, seedSaved>>
exchangeVars == <<seedExchange, seedCalls, sentSeedTo, processingSeedRequest, inbox, obtained>>
sessionVars == <<sessions, issuedSessions, now, authCalls, signOutCalls, signedOut>>
storeVars == <<userVars, exchangeVars, sessionVars>>
vars == <<sockets, uniqueClients, conns, nextConnId, lastOp,
          databases, log, pendingFan, bundleAt, pushes, opens, delivered, lastSent, warned,
          applyTransactionsQueue, handlers, dbKey, started,
          users, userOf, issued, overwritten, seedSaved,
          seedExchange, seedCalls, sentSeedTo, processingSeedRequest, inbox, obtained,
          sessions, issuedSessions, now, authCalls, signOutCalls, signedOut>>

\* ---------------------------------------------------------------- helpers
Max(a, b) == IF a >= b THEN a ELSE b

RECURSIVE SetToSeq(_)
\* the members of a set of integers in ascending order
SetToSeq(S) ==
  IF S = {} THEN <<>>
  ELSE LET m == CHOOSE x \in S : \A y \in S : x <= y
       IN <<m>> \o SetToSeq(S \ {m})

\* -------------------------------------------------------- Connection object
\* new Connection(userId, socket, clientId)
NewConnection(userId, clientId) ==
  [userId |-> userId, clientId |-> clientId,
   keyValidated |-> FALSE, requesterPublicKey |-> NoKey]

NoConnection == [userId |-> "", clientId |-> "",
                 keyValidated |-> FALSE, requesterPublicKey |-> NoKey]

\* conn.databases[D] === undefined
NoDatabase == [open |-> FALSE, bundleSeqNo |-> -1, lastSeqNo |-> 0,
               transactionLogSize |-> 0, init |-> FALSE, reopened |-> FALSE]

Created == 1..(nextConnId - 1)

\* the lookup answers for every connection that ever registered under userId
RegisteredOnceCreated(userId, c) == c \in Created /\ conns[c].userId = userId

\* Connections.sockets[userId][connectionId] is present
Registered(userId, c) == userId \in DOMAIN sockets /\ c \in sockets[userId]

\* every connection present in Connections.sockets
Live == UNION {sockets[u] : u \in DOMAIN sockets}

NoEmit == [c \in ConnIds |-> <<>>]

\* ghost record of one registry / seed operation: its arguments, what it returned,
\* the close code it gave the socket, the messages each connection's socket was sent,
\* whether it found the connection registered, and (validateKey of user.js only)
\* whether the client's message was the encoding of the server's
Op(name, userId, c, key, ret, code, emitted) ==
  [op |-> name, userId |-> userId, conn |-> c, key |-> key,  \* key: clientId or public key
   ret |-> ret, closeCode |-> code, emitted |-> emitted,
   wasRegistered |-> Registered(userId, c), matched |-> FALSE]

\* no operation yet
NoOp == [op |-> "none", userId |-> "", conn |-> 0, key |-> NoKey,
         ret |-> "", closeCode |-> "", emitted |-> NoEmit,
         wasRegistered |-> FALSE, matched |-> FALSE]

\* ------------------------------------------------------------ the registry
\* logger.warn at the place named, and the close code the socket was given there
Warning(at, closeCode) == [at |-> at, closeCode |-> closeCode]

\* sockets after `if (!Connections.sockets[userId]) Connections.sockets[userId] = {}`
WithUser(userId) ==
  [u \in DOMAIN sockets \cup {userId} |->
     IF u \in DOMAIN sockets THEN sockets[u] ELSE {}]

\* register without the uniqueClients test of line 270: the connection is
\* constructed and stored whatever clientId it brings
registerUnchecked(userId, clientId) ==
  /\ nextConnId <= MaxConn
  /\ uniqueClients' = uniqueClients \cup {clientId}
  /\ conns' = [conns EXCEPT ![nextConnId] = NewConnection(userId, clientId)]
  /\ sockets' = [WithUser(userId) EXCEPT
                   ![userId] = WithUser(userId)[userId] \cup {nextConnId}]
  /\ nextConnId' = nextConnId + 1
  /\ lastOp' = Op("register", userId, nextConnId, clientId, "connection", "", NoEmit)
  /\ UNCHANGED pipeVars
  /\ UNCHANGED clientVars
  /\ UNCHANGED storeVars

\* Connections.register(userId, socket, clientId)
register(userId, clientId) ==
  /\ nextConnId <= MaxConn
  /\ IF clientId \notin uniqueClients
     THEN /\ uniqueClients' = uniqueClients \cup {clientId}
          /\ conns' = [conns EXCEPT ![nextConnId] = NewConnection(userId, clientId)]
          /\ sockets' = [WithUser(userId) EXCEPT
                           ![userId] = WithUser(userId)[userId] \cup {nextConnId}]
          /\ nextConnId' = nextConnId + 1
          /\ lastOp' = Op("register", userId, nextConnId, clientId,
                          "connection", "", NoEmit)
          /\ UNCHANGED warned
     ELSE /\ sockets' = WithUser(userId)
          /\ UNCHANGED <<uniqueClients, conns, nextConnId>>
          /\ lastOp' = Op("register", userId, 0, clientId,
                          "false", "Client Already Connected", NoEmit)
          /\ warned' = warned \cup {Warning("register", "Client Already Connected")}
  /\ UNCHANGED <<databases, log, pendingFan, bundleAt, pushes, opens, delivered, lastSent>>
  /\ UNCHANGED clientVars
  /\ UNCHANGED storeVars

\* close that leaves the socket in Connections.sockets
closeKeepsSocket(c) ==
  /\ c \in Created
  /\ uniqueClients' = uniqueClients \ {conns[c].clientId}
  /\ lastOp' = Op("close", conns[c].userId, c, conns[c].clientId, "", "", NoEmit)
  /\ UNCHANGED <<sockets, conns, nextConnId>>
  /\ UNCHANGED pipeVars
  /\ UNCHANGED clientVars
  /\ UNCHANGED storeVars

\* Connections.close(connection): both deletes run whatever the registry holds
close(c) ==
  /\ c \in Created
  /\ sockets' = [sockets EXCEPT ![conns[c].userId] = sockets[conns[c].userId] \ {c}]
  /\ uniqueClients' = uniqueClients \ {conns[c].clientId}
  /\ lastOp' = Op("close", conns[c].userId, c, conns[c].clientId, "", "", NoEmit)
  /\ UNCHANGED <<conns, nextConnId>>
  /\ UNCHANGED pipeVars
  /\ UNCHANGED clientVars
  /\ UNCHANGED storeVars

\* Connection.validateKey()
validateKey(connection) == [connection EXCEPT !.keyValidated = TRUE]

\* Connection.deleteSeedRequest() as deleteSeedRequest of user.js runs it: after its
\* store delete succeeded; a failed delete is logged and the request stays
DeleteSeedRequestOf(connection, outcome) ==
  IF outcome = "ok" THEN [connection EXCEPT !.requesterPublicKey = NoKey] ELSE connection

\* the validation messages (Buffers) the server may have drawn
Buffers == {<<255>>, <<0, 255>>}

RECURSIVE Base64(_)
\* buf.toString('base64') as a sequence of alphabet indices 0..63, 64 for '='
Base64(buf) ==
  IF buf = <<>> THEN <<>>
  ELSE LET n == IF Len(buf) < 3 THEN Len(buf) ELSE 3
           b(i) == IF i <= n THEN buf[i] ELSE 0
           v == b(1) * 65536 + b(2) * 256 + b(3)
       IN << v \div 262144,
             (v \div 4096) % 64,
             IF n >= 2 THEN (v \div 64) % 64 ELSE 64,
             IF n = 3 THEN v % 64 ELSE 64 >>
          \o Base64(SubSeq(buf, n + 1, Len(buf)))

\* what a client may send as its validation message: the encoding of some message,
\* or the bytes without encoding
Provided == {Base64(buf) : buf \in Buffers} \cup {<<255>>}

\* outcomes of the store operation validateKey awaits
StoreOutcomes == {"ok", "ConditionalCheckFailedException", "Error"}

\* the test of line 337 left out
MessagesMatchAlways(validationMessage, userProvidedValidationMessage) == TRUE

\* validationMessage.toString('base64') === userProvidedValidationMessage
MessagesMatch(validationMessage, userProvidedValidationMessage) ==
  Base64(validationMessage) = userProvidedValidationMessage

\* exports.validateKey(validationMessage, userProvidedValidationMessage, user, conn)
\* of user.js, with the user's seed-not-saved-yet flag and the outcome of its store
\* operation (userSavedSeed, or the delete of deleteSeedRequest): what it does to the
\* connection and what it answers
ValidateKeyRun(validationMessage, userProvidedValidationMessage, seedNotSavedYet, outcome, c) ==
  /\ c \in Created
  /\ LET conn == conns[c]
         answer(ret) == [Op("validateKey", conn.userId, c, NoKey, ret, "", NoEmit) EXCEPT
                           !.matched = (Base64(validationMessage) = userProvidedValidationMessage)]
     IN IF ~MessagesMatch(validationMessage, userProvidedValidationMessage)
        THEN /\ lastOp' = answer("Unauthorized: Failed to validate key")
             /\ UNCHANGED conns
        ELSE IF seedNotSavedYet /\ outcome = "ConditionalCheckFailedException"
        THEN /\ lastOp' = answer("Unauthorized: Invalid seed")
             /\ UNCHANGED conns
        ELSE IF seedNotSavedYet /\ outcome # "ok"
        THEN /\ lastOp' = answer("Internal Server Error: Failed to validate key")
             /\ UNCHANGED conns
        ELSE /\ conns' = [conns EXCEPT ![c] =
                            validateKey(IF ~seedNotSavedYet /\ conn.requesterPublicKey # NoKey
                                        THEN DeleteSeedRequestOf(conn, outcome)
                                        ELSE conn)]
             /\ lastOp' = answer("Success!")
  /\ UNCHANGED <<sockets, uniqueClients, nextConnId>>
  /\ UNCHANGED pipeVars
  /\ UNCHANGED clientVars

\* exports.validateKey with the store's answer given, the users table left as it is
UserValidateKey(validationMessage, userProvidedValidationMessage, seedNotSavedYet, outcome, c) ==
  /\ ValidateKeyRun(validationMessage, userProvidedValidationMessage, seedNotSavedYet, outcome, c)
  /\ UNCHANGED storeVars

\* Connection.deleteSeedRequest()
deleteSeedRequest(c) ==
  /\ c \in Created
  /\ conns' = [conns EXCEPT ![c].requesterPublicKey = NoKey]
  /\ lastOp' = Op("deleteSeedRequest", conns[c].userId, c, NoKey, "", "", NoEmit)
  /\ UNCHANGED <<sockets, uniqueClients, nextConnId>>
  /\ UNCHANGED pipeVars
  /\ UNCHANGED clientVars
  /\ UNCHANGED storeVars

\* ------------------------------------------------------- the users table
\* the user who owns database D
DbOwner == "u1"

\* the user ids uuidv4() hands to signUp, in the order of the calls
SignUpIds == <<"u1", "u2", "u3">>

\* no item under the (username, app-id) key
NoUser == [userId |-> "", publicKey |-> "", seedNotSavedYet |-> FALSE, deleted |-> FALSE]

\* no item under a (user-id, requester-public-key) key
NoExchange == "no item"

\* an item without encrypted-seed
NoSeed == "no encrypted-seed"

\* the encrypted seeds a sender may produce
Seeds == {"e1", "e2"}

\* no requestSeed / sendSeed call of the connection yet
NoCall == [op |-> "none", pc |-> "idle", key |-> NoKey, seed |-> NoSeed,
           answer |-> "", ret |-> ""]

\* the SeedExchange table empty, no call of user.js in flight, the clients idle
ExchangeIdle ==
  /\ seedExchange = [k \in PubKeys |-> NoExchange]
  /\ seedCalls = [c \in ConnIds |-> NoCall]
  /\ sentSeedTo = [c \in ConnIds |-> {}]
  /\ processingSeedRequest = [c \in ConnIds |-> {}]
  /\ inbox = [c \in ConnIds |-> {}]
  /\ obtained = [c \in ConnIds |-> {}]

\* the session ids crypto.randomBytes hands to createSession, in the order of the calls
SessionSeq == <<"s1">>

\* a session id no createSession call generated
UnknownSession == "s0"

SessionIds == {SessionSeq[i] : i \in 1..Len(SessionSeq)} \cup {UnknownSession}

\* a request without sessionId, a request without appId
NoSessionId == ""
NoAppId == ""

\* the app ids of requests and sessions
AppIds == {"app1", "app2"}

\* an attribute holding a date is absent
NoDate == 0

\* no item under a session-id (item: the Item of the get is defined)
NoSession ==
  [item |-> FALSE, userId |-> "", appId |-> NoAppId, creationDate |-> NoDate,
   extendedDate |-> NoDate, invalidated |-> FALSE]

\* the requests whose authenticateUser call may be in flight or whose route runs
AuthReqs == {1}

\* no authenticateUser call of the request
NoAuth ==
  [pc |-> "idle", sessionId |-> NoSessionId, appId |-> NoAppId, session |-> NoSession,
   at |-> NoDate, user |-> NoUser, answer |-> "", late |-> FALSE, gone |-> FALSE,
   ret |-> ""]

\* the sessions table empty, the clock at its first instant, no call in flight
SessionIdle ==
  /\ sessions = [s \in SessionIds |-> NoSession]
  /\ issuedSessions = 0
  /\ now = 1
  /\ authCalls = [r \in AuthReqs |-> NoAuth]
  /\ signOutCalls = [s \in SessionIds |-> "idle"]
  /\ signedOut = {}

\* the users table empty, no user object read yet
StoreIdle ==
  /\ users = NoUser
  /\ userOf = [c \in ConnIds |-> NoUser]
  /\ issued = 0
  /\ overwritten = {}
  /\ seedSaved = {}
  /\ ExchangeIdle
  /\ SessionIdle

\* the Item of _buildSignUpParams
SignUpItem(userId, publicKey) ==
  [userId |-> userId, publicKey |-> publicKey, seedNotSavedYet |-> TRUE, deleted |-> FALSE]

\* a put that overwrites whatever the key holds
SignUpConditionAlways(item) == TRUE

\* ConditionExpression of _buildSignUpParams:
\* attribute_not_exists(username) or attribute_exists(#seedNotSavedYet)
SignUpCondition(item) == item = NoUser \/ item.seedNotSavedYet

\* the condition of userSavedSeed without its user-id test
SeedSavedConditionAnyUser(item, userId, publicKey) ==
  item # NoUser /\ item.seedNotSavedYet /\ item.publicKey = publicKey

\* ConditionExpression of userSavedSeed:
\* attribute_exists(#seedNotSavedYet) and #userId = :userId and #publicKey = :publicKey
SeedSavedCondition(item, userId, publicKey) ==
  item # NoUser /\ item.seedNotSavedYet /\ item.userId = userId /\ item.publicKey = publicKey

\* what a sign-up request can be: well-formed with a valid app, rejected by the
\* input validation, or naming an app (or admin) that is missing or deleted
SignUpRequests == {"ok", "Bad Request", "App ID not valid"}

\* what the store does to signUp: both writes succeed, the put of the user throws
\* another error than the failed condition, or the put of createSession throws
SignUpOutcomes == {"ok", "PutError", "SessionError"}

\* exports.signUp(req, res) for the one (username, app-id) key
signUp(publicKey, request, outcome) ==
  /\ issued < Len(SignUpIds)
  /\ LET userId == SignUpIds[issued + 1]
         answer(ret) == Op("signUp", userId, 0, publicKey, ret, "", NoEmit)
     IN IF request = "Bad Request"
        THEN /\ lastOp' = Op("signUp", "", 0, publicKey, "Bad Request", "", NoEmit)
             /\ UNCHANGED <<users, issued, overwritten>>
        ELSE /\ issued' = issued + 1
             /\ IF request = "App ID not valid"
                THEN /\ lastOp' = answer("Unauthorized: App ID not valid")
                     /\ UNCHANGED <<users, overwritten>>
                ELSE IF outcome = "PutError"
                THEN /\ lastOp' = answer("Internal Server Error")
                     /\ UNCHANGED <<users, overwritten>>
                ELSE IF ~SignUpCondition(users)
                THEN /\ lastOp' = answer("Conflict: UsernameAlreadyExists")
                     /\ UNCHANGED <<users, overwritten>>
                ELSE /\ users' = SignUpItem(userId, publicKey)
                     /\ overwritten' = IF users = NoUser THEN overwritten
                                       ELSE overwritten \cup {users.userId}
                     /\ lastOp' = answer(IF outcome = "SessionError"
                                         THEN "Internal Server Error" ELSE "session")
  /\ UNCHANGED <<sockets, uniqueClients, conns, nextConnId>>
  /\ UNCHANGED <<userOf, seedSaved>>
  /\ UNCHANGED <<exchangeVars, sessionVars>>
  /\ UNCHANGED pipeVars
  /\ UNCHANGED clientVars

\* getUserByUserId(userId) as authenticateUser runs it for a socket that is about
\* to connect: the item found becomes res.locals.user of that socket
getUserByUserId(userId) ==
  /\ nextConnId <= MaxConn
  /\ users # NoUser /\ users.userId = userId /\ ~users.deleted
  /\ userOf' = [userOf EXCEPT ![nextConnId] = users]
  /\ UNCHANGED <<users, issued, overwritten, seedSaved>>
  /\ UNCHANGED <<exchangeVars, sessionVars>>
  /\ UNCHANGED <<regVars, pipeVars>>
  /\ UNCHANGED clientVars

\* exports.validateKey on connection c with the user object of that connection and
\* the users table: the update of userSavedSeed, then the rest of the handler;
\* fails: the store throws another error than the failed condition
validateKeyOfUser(validationMessage, userProvidedValidationMessage, c, fails) ==
  /\ c \in Created
  /\ userOf[c] # NoUser
  /\ LET user == userOf[c]
         saves == /\ MessagesMatch(validationMessage, userProvidedValidationMessage)
                  /\ user.seedNotSavedYet
                  /\ ~fails
                  /\ SeedSavedCondition(users, user.userId, user.publicKey)
         outcome == IF fails THEN "Error"
                    ELSE IF user.seedNotSavedYet /\ ~saves
                    THEN "ConditionalCheckFailedException"
                    ELSE "ok"
     IN /\ ValidateKeyRun(validationMessage, userProvidedValidationMessage,
                          user.seedNotSavedYet, outcome, c)
        /\ users' = IF saves THEN [users EXCEPT !.seedNotSavedYet = FALSE] ELSE users
        /\ seedSaved' = IF saves THEN seedSaved \cup {user.userId} ELSE seedSaved
        /\ seedExchange' =
              IF /\ MessagesMatch(validationMessage, userProvidedValidationMessage)
                 /\ ~user.seedNotSavedYet /\ ~fails
                 /\ conns[c].userId = DbOwner /\ conns[c].requesterPublicKey # NoKey
              THEN [seedExchange EXCEPT ![conns[c].requesterPublicKey] = NoExchange]
              ELSE seedExchange
  /\ UNCHANGED <<userOf, issued, overwritten>>
  /\ UNCHANGED <<seedCalls, sentSeedTo, processingSeedRequest, inbox, obtained>>
  /\ UNCHANGED sessionVars

\* exports.updateUser(userId, username, ...) with a username other than the user's:
\* the transaction of _updateUserIncludingUsernameUpdate deletes the item of the old
\* key and puts it under the new one
updateUser(userId) ==
  /\ users # NoUser /\ users.userId = userId /\ ~users.deleted
  /\ users' = NoUser
  /\ lastOp' = Op("updateUser", userId, 0, NoKey, "Success", "", NoEmit)
  /\ UNCHANGED <<sockets, uniqueClients, conns, nextConnId>>
  /\ UNCHANGED <<userOf, issued, overwritten, seedSaved>>
  /\ UNCHANGED <<exchangeVars, sessionVars>>
  /\ UNCHANGED pipeVars
  /\ UNCHANGED clientVars

\* ------------------------------------------------------- the seed exchange
\* sendSeedRequest without the keyValidated test of line 237
ConnSendSeedRequestUnchecked(connection, requesterPublicKey) ==
  <<[route |-> "ReceiveRequestForSeed", requesterPublicKey |-> requesterPublicKey]>>

\* Connection.sendSeedRequest(requesterPublicKey): what the connection sends
ConnSendSeedRequest(connection, requesterPublicKey) ==
  IF ~connection.keyValidated THEN <<>>
  ELSE <<[route |-> "ReceiveRequestForSeed", requesterPublicKey |-> requesterPublicKey]>>

\* sendSeed without the requesterPublicKey test of line 248
ConnSendSeedUnchecked(connection, senderPublicKey, requesterPublicKey) ==
  <<[route |-> "ReceiveSeed", senderPublicKey |-> senderPublicKey]>>

\* Connection.sendSeed(senderPublicKey, requesterPublicKey, encryptedSeed)
ConnSendSeed(connection, senderPublicKey, requesterPublicKey) ==
  IF connection.requesterPublicKey # requesterPublicKey THEN <<>>
  ELSE <<[route |-> "ReceiveSeed", senderPublicKey |-> senderPublicKey]>>

\* Connections.sendSeedRequest(userId, connectionId, requesterPublicKey): what it
\* does to the registry and what the sockets are sent
sendSeedRequestRun(userId, connectionId, requesterPublicKey) ==
  /\ IF ~Registered(userId, connectionId)
     THEN /\ lastOp' = Op("sendSeedRequest", userId, connectionId, requesterPublicKey,
                          "", "", NoEmit)
          /\ UNCHANGED conns
     ELSE LET opened == [conns EXCEPT
                           ![connectionId].requesterPublicKey = requesterPublicKey]
          IN /\ conns' = opened
             /\ lastOp' = Op("sendSeedRequest", userId, connectionId,
                             requesterPublicKey, "", "",
                             [c \in ConnIds |->
                                IF c \in sockets[userId]
                                THEN ConnSendSeedRequest(opened[c], requesterPublicKey)
                                ELSE <<>>])
  /\ UNCHANGED <<sockets, uniqueClients, nextConnId>>
  /\ UNCHANGED pipeVars
  /\ UNCHANGED clientVars

\* Connections.sendSeedRequest called with the tables of user.js left as they are
sendSeedRequest(userId, connectionId, requesterPublicKey) ==
  /\ sendSeedRequestRun(userId, connectionId, requesterPublicKey)
  /\ UNCHANGED storeVars

\* sendSeed that loops over the sockets of every user
sendSeedAllUsers(userId, senderPublicKey, requesterPublicKey) ==
  /\ lastOp' = Op("sendSeed", userId, 0, requesterPublicKey, "", "",
                  [c \in ConnIds |->
                     IF c \in Live
                     THEN ConnSendSeed(conns[c], senderPublicKey, requesterPublicKey)
                     ELSE <<>>])
  /\ UNCHANGED <<sockets, uniqueClients, conns, nextConnId>>
  /\ UNCHANGED pipeVars
  /\ UNCHANGED clientVars
  /\ UNCHANGED storeVars

\* Connections.sendSeed(userId, senderPublicKey, requesterPublicKey, encryptedSeed):
\* what the sockets are sent
sendSeedRun(userId, senderPublicKey, requesterPublicKey) ==
  /\ lastOp' = Op("sendSeed", userId, 0, requesterPublicKey, "", "",
                  [c \in ConnIds |->
                     IF userId \in DOMAIN sockets /\ c \in sockets[userId]
                     THEN ConnSendSeed(conns[c], senderPublicKey, requesterPublicKey)
                     ELSE <<>>])
  /\ UNCHANGED <<sockets, uniqueClients, conns, nextConnId>>
  /\ UNCHANGED pipeVars
  /\ UNCHANGED clientVars

\* Connections.sendSeed called with the tables of user.js left as they are
sendSeed(userId, senderPublicKey, requesterPublicKey) ==
  /\ sendSeedRun(userId, senderPublicKey, requesterPublicKey)
  /\ UNCHANGED storeVars

\* ------------------------------------------- the seed exchange of user.js
\* a put that replaces the item the key holds
RequestPutConditionAlways(item) == TRUE

\* ConditionExpression of requestSeed's put: attribute_not_exists(#userId)
RequestPutCondition(item) == item = NoExchange

\* the call record once the handler has returned ret
Done(call, ret) == [call EXCEPT !.pc = "idle", !.ret = ret]

\* the ReceiveRequestForSeed messages of lastOp reach their clients, whose
\* handlers call this.sendSeed(requesterPublicKey)
DeliverRequests(emitted, requesterPublicKey) ==
  [d \in ConnIds |-> IF emitted[d] # <<>> THEN inbox[d] \cup {requesterPublicKey}
                     ELSE inbox[d]]

\* the ReceiveSeed messages of lastOp reach their clients
DeliverSeed(emitted, encryptedSeed) ==
  [d \in ConnIds |-> IF emitted[d] # <<>> THEN obtained[d] \cup {encryptedSeed}
                     ELSE obtained[d]]

\* exports.requestSeed(userId, senderPublicKey, connectionId, requesterPublicKey) up
\* to its await of the put, with the put at the store; fails: the put throws another
\* error than the failed condition
UserRequestSeed(c, requesterPublicKey, fails) ==
  /\ Registered(DbOwner, c)
  /\ seedCalls[c].pc = "idle"
  /\ LET call(answer) == [op |-> "requestSeed", pc |-> "put", key |-> requesterPublicKey,
                          seed |-> NoSeed, answer |-> answer, ret |-> ""]
     IN IF requesterPublicKey = NoKey
        THEN /\ seedCalls' = [seedCalls EXCEPT ![c] =
                                Done(call(""), "Bad Request: Missing requester public key")]
             /\ UNCHANGED seedExchange
        ELSE IF fails
        THEN /\ seedCalls' = [seedCalls EXCEPT ![c] = call("Error")]
             /\ UNCHANGED seedExchange
        ELSE IF RequestPutCondition(seedExchange[requesterPublicKey])
        THEN /\ seedExchange' = [seedExchange EXCEPT ![requesterPublicKey] = NoSeed]
             /\ seedCalls' = [seedCalls EXCEPT ![c] = call("ok")]
        ELSE /\ seedCalls' = [seedCalls EXCEPT ![c] =
                                call("ConditionalCheckFailedException")]
             /\ UNCHANGED seedExchange
  /\ UNCHANGED <<sentSeedTo, processingSeedRequest, inbox, obtained>>
  /\ UNCHANGED <<userVars, sessionVars>>
  /\ UNCHANGED <<regVars, pipeVars>>
  /\ UNCHANGED clientVars

\* exports.requestSeed after its put: the request is sent out, or the existing item
\* is read (fails: the get throws)
UserRequestSeedAfterPut(c, fails) ==
  /\ seedCalls[c].op = "requestSeed" /\ seedCalls[c].pc = "put"
  /\ LET call == seedCalls[c]
     IN IF call.answer = "ok"
        THEN /\ sendSeedRequestRun(conns[c].userId, c, call.key)
             /\ inbox' = DeliverRequests(lastOp'.emitted, call.key)
             /\ seedCalls' = [seedCalls EXCEPT ![c] =
                                Done(call, "Successfully sent out request for seed!")]
        ELSE /\ seedCalls' = [seedCalls EXCEPT ![c] =
                                IF call.answer = "Error" \/ fails
                                THEN Done(call, "Internal Server Error: Failed to request seed")
                                ELSE [call EXCEPT !.pc = "get",
                                                  !.answer = seedExchange[call.key]]]
             /\ UNCHANGED inbox
             /\ UNCHANGED <<regVars, pipeVars>>
             /\ UNCHANGED clientVars
  /\ UNCHANGED <<seedExchange, sentSeedTo, processingSeedRequest, obtained>>
  /\ UNCHANGED <<userVars, sessionVars>>

\* exports.requestSeed after its get of the existing item
UserRequestSeedAfterGet(c) ==
  /\ seedCalls[c].op = "requestSeed" /\ seedCalls[c].pc = "get"
  /\ LET call == seedCalls[c]
     IN IF call.answer = NoSeed
        THEN /\ sendSeedRequestRun(conns[c].userId, c, call.key)
             /\ inbox' = DeliverRequests(lastOp'.emitted, call.key)
             /\ seedCalls' = [seedCalls EXCEPT ![c] =
                                Done(call, "Successfully sent out request for seed!")]
             /\ UNCHANGED obtained
        ELSE /\ IF call.answer = NoExchange
                THEN /\ seedCalls' = [seedCalls EXCEPT ![c] =
                                        Done(call, "Internal Server Error: Failed to request seed")]
                     /\ UNCHANGED obtained
                ELSE /\ seedCalls' = [seedCalls EXCEPT ![c] =
                                        Done([call EXCEPT !.seed = call.answer], "encryptedSeed")]
                     /\ obtained' = [obtained EXCEPT ![c] = obtained[c] \cup {call.answer}]
             /\ UNCHANGED inbox
             /\ UNCHANGED <<regVars, pipeVars>>
             /\ UNCHANGED clientVars
  /\ UNCHANGED <<seedExchange, sentSeedTo, processingSeedRequest>>
  /\ UNCHANGED <<userVars, sessionVars>>

\* exports.querySeedRequests(userId) for a client whose keys are set, and the loop of
\* the client's getRequestsForSeed over the items without encrypted-seed
UserQuerySeedRequests(c) ==
  /\ Registered(DbOwner, c) /\ conns[c].keyValidated
  /\ inbox' = [inbox EXCEPT ![c] = inbox[c] \cup {k \in PubKeys : seedExchange[k] = NoSeed}]
  /\ UNCHANGED <<seedExchange, seedCalls, sentSeedTo, processingSeedRequest, obtained>>
  /\ UNCHANGED <<userVars, sessionVars>>
  /\ UNCHANGED <<regVars, pipeVars>>
  /\ UNCHANGED clientVars

\* sendSeed(requesterPublicKey) of the client: it returns when the seed was sent to
\* that device or is being sent; else the user confirms or declines, and on
\* confirming the client requests SendSeed with the seed it encrypted
ClientSendSeed(c, requesterPublicKey, confirmed, encryptedSeed) ==
  /\ Registered(DbOwner, c)
  /\ requesterPublicKey \in inbox[c]
  /\ LET busy == requesterPublicKey \in sentSeedTo[c] \cup processingSeedRequest[c]
     IN IF busy \/ ~confirmed
        THEN /\ inbox' = [inbox EXCEPT ![c] = inbox[c] \ {requesterPublicKey}]
             /\ UNCHANGED <<seedCalls, processingSeedRequest>>
        ELSE /\ seedCalls[c].pc = "idle"
             /\ inbox' = [inbox EXCEPT ![c] = inbox[c] \ {requesterPublicKey}]
             /\ processingSeedRequest' = [processingSeedRequest EXCEPT
                                            ![c] = processingSeedRequest[c] \cup {requesterPublicKey}]
             /\ seedCalls' = [seedCalls EXCEPT ![c] =
                                [op |-> "sendSeed", pc |-> "requested",
                                 key |-> requesterPublicKey, seed |-> encryptedSeed,
                                 answer |-> "", ret |-> ""]]
  /\ UNCHANGED <<seedExchange, sentSeedTo, obtained>>
  /\ UNCHANGED <<userVars, sessionVars>>
  /\ UNCHANGED <<regVars, pipeVars>>
  /\ UNCHANGED clientVars

\* exports.sendSeed(userId, senderPublicKey, requesterPublicKey, encryptedSeed) up to
\* its await of the update, with the update at the store; fails: the update throws
UserSendSeed(c, fails) ==
  /\ Registered(DbOwner, c)
  /\ seedCalls[c].op = "sendSeed" /\ seedCalls[c].pc = "requested"
  /\ LET call == seedCalls[c]
     IN IF call.key = NoKey \/ call.seed = NoSeed
        THEN /\ seedCalls' = [seedCalls EXCEPT ![c] =
                                [call EXCEPT !.pc = "update", !.answer = "Bad Request"]]
             /\ UNCHANGED seedExchange
        ELSE IF fails
        THEN /\ seedCalls' = [seedCalls EXCEPT ![c] =
                                [call EXCEPT !.pc = "update", !.answer = "Error"]]
             /\ UNCHANGED seedExchange
        ELSE /\ seedExchange' = [seedExchange EXCEPT ![call.key] = call.seed]
             /\ seedCalls' = [seedCalls EXCEPT ![c] =
                                [call EXCEPT !.pc = "update", !.answer = "ok"]]
  /\ UNCHANGED <<sentSeedTo, processingSeedRequest, inbox, obtained>>
  /\ UNCHANGED <<userVars, sessionVars>>
  /\ UNCHANGED <<regVars, pipeVars>>
  /\ UNCHANGED clientVars

\* exports.sendSeed after its update: the seed is fanned out and the client is
\* answered; the client marks the device as sent to on success and in every case
\* stops processing the request
UserSendSeedAfterUpdate(c) ==
  /\ seedCalls[c].op = "sendSeed" /\ seedCalls[c].pc = "update"
  /\ LET call == seedCalls[c]
     IN /\ IF call.answer = "ok"
           THEN /\ sendSeedRun(conns[c].userId, SenderKey, call.key)
                /\ obtained' = DeliverSeed(lastOp'.emitted, call.seed)
                /\ seedCalls' = [seedCalls EXCEPT ![c] = Done(call, "Success!")]
                /\ sentSeedTo' = [sentSeedTo EXCEPT ![c] = sentSeedTo[c] \cup {call.key}]
           ELSE /\ seedCalls' = [seedCalls EXCEPT ![c] =
                                   Done(call, IF call.answer = "Bad Request"
                                              THEN "Bad Request: Missing required items"
                                              ELSE "Internal Server Error: Failed to send seed")]
                /\ UNCHANGED <<obtained, sentSeedTo>>
                /\ UNCHANGED <<regVars, pipeVars>>
                /\ UNCHANGED clientVars
        /\ processingSeedRequest' = [processingSeedRequest EXCEPT
                                       ![c] = processingSeedRequest[c] \ {call.key}]
  /\ UNCHANGED <<seedExchange, inbox>>
  /\ UNCHANGED <<userVars, sessionVars>>

\* -------------------------------------------------- the sessions of user.js
\* SESSION_LENGTH on the clock of the model: one day is two half days
SESSION_LENGTH == 2

\* what is left alone by every operation on the sessions table
SessionFrame ==
  /\ UNCHANGED <<regVars, pipeVars>>
  /\ UNCHANGED clientVars
  /\ UNCHANGED exchangeVars
  /\ UNCHANGED <<userOf, issued, overwritten, seedSaved>>

\* the authenticateUser call is over with this answer
AuthDone(call, ret) == [call EXCEPT !.pc = "done", !.ret = ret]

\* createSession(userId, appId): the put of a new item under a fresh session id
createSession(userId, appId) ==
  /\ issuedSessions < Len(SessionSeq)
  /\ users.userId = userId /\ ~users.deleted
  /\ issuedSessions' = issuedSessions + 1
  /\ sessions' = [sessions EXCEPT ![SessionSeq[issuedSessions + 1]] =
                    [item |-> TRUE, userId |-> userId, appId |-> appId,
                     creationDate |-> now, extendedDate |-> NoDate,
                     invalidated |-> FALSE]]
  /\ UNCHANGED <<users, now, authCalls, signOutCalls, signedOut>>
  /\ SessionFrame

\* session.invalidated is never looked at: only a missing item is invalid
InvalidatedOnlyMissing(session) == ~session.item

\* const invalidated = doesNotExist || session.invalidated
Invalidated(session) == ~session.item \/ session.invalidated

\* new Date(session['extended-date'] || session['creation-date'])
SessionStartDate(session) ==
  IF session.extendedDate # NoDate THEN session.extendedDate ELSE session.creationDate

\* const expired = invalidated || new Date() - sessionStartDate > SESSION_LENGTH
Expired(session, date) ==
  Invalidated(session) \/ date - SessionStartDate(session) > SESSION_LENGTH

\* the item getUserByUserId finds in the user-id index (NoUser: null)
UserItemOf(userId) == IF users.userId = userId THEN users ELSE NoUser

\* exports.authenticateUser of request r up to the get of the session;
\* fails: the store throws
authenticateUser(r, sessionId, appId, fails) ==
  /\ authCalls[r].pc \in {"idle", "done"}
  /\ LET call == [NoAuth EXCEPT !.sessionId = sessionId, !.appId = appId,
                                 !.late = sessionId \in signedOut,
                                 !.gone = users.deleted]
     IN  authCalls' = [authCalls EXCEPT ![r] =
           IF sessionId = NoSessionId \/ appId = NoAppId
           THEN AuthDone(call, "Unauthorized: Missing session token or app id")
           ELSE [call EXCEPT !.pc = "get",
                             !.answer = IF fails THEN "Error" ELSE "ok",
                             !.session = IF fails THEN NoSession ELSE sessions[sessionId]]]
  /\ UNCHANGED <<users, sessions, issuedSessions, now, signOutCalls, signedOut>>
  /\ SessionFrame

\* authenticateUser after the get: the checks of the session against the clock and
\* the request's appId, then the reads of the user and of the app;
\* fails: one of the two reads throws
authenticateUserAfterGet(r, fails) ==
  /\ authCalls[r].pc = "get"
  /\ LET call == authCalls[r]
         session == call.session
         isNotUserSession == Expired(session, now) \/ session.userId = ""
     IN  authCalls' = [authCalls EXCEPT ![r] =
           IF call.answer = "Error"
           THEN AuthDone(call, "Internal Server Error: Failed to authenticate user")
           ELSE IF ~session.item \/ Invalidated(session) \/ Expired(session, now)
                   \/ isNotUserSession
           THEN AuthDone([call EXCEPT !.at = now], "Unauthorized: Session invalid")
           ELSE IF session.appId # call.appId
           THEN AuthDone([call EXCEPT !.at = now], "Unauthorized: App ID not valid")
           ELSE [call EXCEPT !.pc = "reads", !.at = now,
                             !.answer = IF fails THEN "Error" ELSE "ok",
                             !.user = IF fails THEN NoUser ELSE UserItemOf(session.userId)]]
  /\ UNCHANGED <<users, sessions, issuedSessions, now, signOutCalls, signedOut>>
  /\ SessionFrame

\* authenticateUser after the reads of the user and the app: the checks of both,
\* then the read of the admin; appFound: the app exists and is not deleted;
\* fails: the read of the admin throws
authenticateUserAfterReads(r, appFound, fails) ==
  /\ authCalls[r].pc = "reads"
  /\ LET call == authCalls[r]
     IN  authCalls' = [authCalls EXCEPT ![r] =
           IF call.answer = "Error"
           THEN AuthDone(call, "Internal Server Error: Failed to authenticate user")
           ELSE IF call.user = NoUser \/ call.user.deleted
           THEN AuthDone(call, "Unauthorized: Session invalid")
           ELSE IF ~appFound
           THEN AuthDone(call, "Unauthorized: App ID not valid")
           ELSE [call EXCEPT !.pc = "admin",
                             !.answer = IF fails THEN "Error" ELSE "ok"]]
  /\ UNCHANGED <<users, sessions, issuedSessions, now, signOutCalls, signedOut>>
  /\ SessionFrame

\* authenticateUser after the read of the admin: res.locals.user is set and next()
\* is called; adminFound: the admin exists and is not deleted
authenticateUserAfterAdmin(r, adminFound) ==
  /\ authCalls[r].pc = "admin"
  /\ LET call == authCalls[r]
     IN  authCalls' = [authCalls EXCEPT ![r] =
           IF call.answer = "Error"
           THEN AuthDone(call, "Internal Server Error: Failed to authenticate user")
           ELSE IF ~adminFound
           THEN AuthDone(call, "Unauthorized: App ID not valid")
           ELSE AuthDone(call, "next")]
  /\ UNCHANGED <<users, sessions, issuedSessions, now, signOutCalls, signedOut>>
  /\ SessionFrame

\* exports.extendSession, the route after authenticateUser called next() for request
\* r: the update sets extended-date on the item of the session id, creating the item
\* if there is none; the request is over (the response changes no state);
\* fails: the store throws
extendSession(r, fails) ==
  /\ authCalls[r].pc = "done" /\ authCalls[r].ret = "next"
  /\ sessions' = IF fails THEN sessions
                 ELSE [sessions EXCEPT ![authCalls[r].sessionId].item = TRUE,
                                       ![authCalls[r].sessionId].extendedDate = now]
  /\ authCalls' = [authCalls EXCEPT ![r] = NoAuth]
  /\ UNCHANGED <<users, issuedSessions, now, signOutCalls, signedOut>>
  /\ SessionFrame

\* exports.signOut(sessionId) up to its update, which sets invalidated on the item of
\* the session id, creating the item if there is none (a call without session id
\* answers Unauthorized and writes nothing); fails: the store throws
signOut(sessionId, fails) ==
  /\ signOutCalls[sessionId] = "idle"
  /\ sessions' = IF fails THEN sessions
                 ELSE [sessions EXCEPT ![sessionId].item = TRUE,
                                       ![sessionId].invalidated = TRUE]
  /\ signOutCalls' = [signOutCalls EXCEPT ![sessionId] = IF fails THEN "Error" ELSE "ok"]
  /\ UNCHANGED <<users, issuedSessions, now, authCalls, signedOut>>
  /\ SessionFrame

\* signOut after the update: 'Success!', or 'Failed to sign out!' when the store threw
signOutAfterUpdate(sessionId) ==
  /\ signOutCalls[sessionId] # "idle"
  /\ signedOut' = IF signOutCalls[sessionId] = "ok" THEN signedOut \cup {sessionId}
                  ELSE signedOut
  /\ signOutCalls' = [signOutCalls EXCEPT ![sessionId] = "idle"]
  /\ UNCHANGED <<users, sessions, issuedSessions, now, authCalls>>
  /\ SessionFrame

\* deleteUser: the update sets deleted on the item of an existing, undeleted user
deleteUser(userId) ==
  /\ users # NoUser /\ users.userId = userId /\ ~users.deleted
  /\ users' = [users EXCEPT !.deleted = TRUE]
  /\ UNCHANGED sessionVars
  /\ SessionFrame

\* half a day passes
TickHalfDay ==
  /\ now < MaxNow
  /\ now' = now + 1
  /\ UNCHANGED <<users, sessions, issuedSessions, authCalls, signOutCalls, signedOut>>
  /\ SessionFrame

\* ------------------------------------------------------ the transaction log
NoItem == [command |-> "None", old |-> FALSE, size |-> 0]

\* the sequence numbers present in the table
Present == {n \in SeqNos : log[n].command # "None"}

\* the item with sequence-no n as a query returns it
Item(n) == [seqNo |-> n, command |-> log[n].command, size |-> log[n].size]

\* rolledbBackItem of rollback (lines 162-167)
RollbackItem(n) == [seqNo |-> n, command |-> "Rollback", size |-> ItemSize(n)]

\* estimateSizeOfDdbItem(transaction)
estimateSizeOfDdbItem(transaction) == transaction.size

RECURSIVE SumSizes(_)
SumSizes(q) == IF q = <<>> THEN 0 ELSE estimateSizeOfDdbItem(Head(q)) + SumSizes(Tail(q))

\* ddbClient.query(params): one page, ascending, of the items with
\* sequence-no > :seqNo that lie after ExclusiveStartKey
QueryPage(seqNoParam, startKey) ==
  LET all == SetToSeq({n \in Present : n > Max(seqNoParam, startKey)})
  IN IF Len(all) <= PageSize THEN all ELSE SubSeq(all, 1, PageSize)

\* LastEvaluatedKey of that page (0: undefined): set when the page is full
LastEvaluatedKey(page) == IF Len(page) = PageSize THEN page[Len(page)] ELSE 0

\* ------------------------------------------------------------- sendPayload
\* the wire shape of one transaction
WireItem(transaction) == [seqNo |-> transaction.seqNo, command |-> transaction.command]

\* the scan met no gap
NoGap == [kind |-> "end", seqNo |-> 0]

\* the message socket.send is given; reopen, fast, pre, first and gap are ghost
\* fields: whether a reopening push or the fan-out's fast path sent it, the
\* DatabaseState before, whether it is the first message the socket is sent for D,
\* and the gap that ended the scan of the push that sent it
Message(payload, transactionLog, buildBundle, database) ==
  [route |-> "ApplyTransactions", hdr |-> payload.hdr,
   bundleSeqNo |-> IF payload.hasBundle THEN payload.bundleSeqNo ELSE 0,
   transactionLog |-> transactionLog, buildBundle |-> buildBundle,
   reopen |-> payload.reopen, fast |-> payload.fast, pre |-> database, first |-> FALSE,
   gap |-> NoGap]

\* no message yet
NoMessage == [route |-> "none"]

\* the ghosts after the messages msgs (none or one) went out
Delivered(d, msgs) ==
  IF msgs = <<>> THEN d
  ELSE d \o [i \in 1..Len(msgs[1].transactionLog) |-> msgs[1].transactionLog[i].seqNo]

LastOf(m, msgs) == IF msgs = <<>> THEN m ELSE [msgs[1] EXCEPT !.first = (m = NoMessage)]

\* indexOfFirstTransactionToSend (0: findIndex answered -1)
FirstToSend(ddbTransactionLog, database) ==
  LET hits == {i \in 1..Len(ddbTransactionLog) :
                 ddbTransactionLog[i].seqNo > database.lastSeqNo}
  IN IF hits = {} THEN 0 ELSE CHOOSE i \in hits : \A j \in hits : i <= j

\* the test of lines 216-217 without its second clause
StartsAtLastSeqNo(first, payload, database) == first = database.lastSeqNo + 1

\* sendPayload without the test of lines 216-217
StartsAnywhere(first, payload, database) == TRUE

\* transactionLog[0].seqNo is the next seqNo the client is to receive
\* (undefined + 1 is NaN: a payload without bundle never passes by the second test)
StartsAtNext(first, payload, database) ==
  \/ first = database.lastSeqNo + 1
  \/ payload.hasBundle /\ first = payload.bundleSeqNo + 1

\* the test of line 219 with > in place of >=
BundleTriggeredStrict(database, size) ==
  database.transactionLogSize + size > TRANSACTION_SIZE_BUNDLE_TRIGGER

\* database.transactionLogSize + size >= TRANSACTION_SIZE_BUNDLE_TRIGGER
BundleTriggered(database, size) ==
  database.transactionLogSize + size >= TRANSACTION_SIZE_BUNDLE_TRIGGER

\* the DatabaseState sendPayload leaves after it sent the batch q of the given size
AfterSend(database, q, size) ==
  [database EXCEPT
     !.transactionLogSize = IF BundleTriggered(database, size) THEN 0 ELSE @ + size,
     !.lastSeqNo = q[Len(q)].seqNo,
     !.init = TRUE]

\* Connection.sendPayload(payload, ddbTransactionLog, database):
\* the messages sent (none or one) and the DatabaseState afterwards
sendPayload(payload, ddbTransactionLog, database) ==
  LET idx == FirstToSend(ddbTransactionLog, database)
      q == SubSeq(ddbTransactionLog, idx, Len(ddbTransactionLog))
      size == SumSizes(q)
  IN IF idx = 0 \/ Len(q) = 0 \/ ~StartsAtNext(q[1].seqNo, payload, database)
     THEN [msgs |-> <<>>, db |-> database]
     ELSE [msgs |-> <<Message(payload, [i \in 1..Len(q) |-> WireItem(q[i])],
                             BundleTriggered(database, size), database)>>,
           db |-> AfterSend(database, q, size)]

\* ---------------------------------------------------------- Connection.push
\* one push at an await; rest is a ghost field: whether the page in which the scan
\* met the old gap holds records after the record behind the gap
NewPush == [pc |-> "query", conn |-> 0, opening |-> FALSE, reopenAt |-> NoReopen,
             hasBundle |-> FALSE, bundleSeqNo |-> -1, seqNoParam |-> 0, lastSeqNo |-> 0,
             startKey |-> 0, buffer |-> <<>>,
             gapSeqNo |-> 0, rbNext |-> 0, rest |-> FALSE]

\* the payload object of a push
PayloadOf(P) == [hdr |-> P.opening, hasBundle |-> P.hasBundle, bundleSeqNo |-> P.bundleSeqNo,
                 reopen |-> P.reopenAt # NoReopen, fast |-> FALSE]

\* Connection.openDatabase that keeps the bundleSeqNo it is given
ConnOpenDatabaseRaw(bundleSeqNo, reopenAtSeqNo) ==
  [open |-> TRUE,
   bundleSeqNo |-> bundleSeqNo,
   lastSeqNo |-> IF reopenAtSeqNo = NoReopen THEN 0 ELSE reopenAtSeqNo,
   transactionLogSize |-> 0,
   init |-> reopenAtSeqNo # NoReopen,
   reopened |-> reopenAtSeqNo # NoReopen]

\* Connection.openDatabase(databaseId, bundleSeqNo, reopenAtSeqNo)
ConnOpenDatabase(bundleSeqNo, reopenAtSeqNo) ==
  [open |-> TRUE,
   bundleSeqNo |-> IF bundleSeqNo > 0 THEN bundleSeqNo ELSE -1,
   lastSeqNo |-> IF reopenAtSeqNo = NoReopen THEN 0 ELSE reopenAtSeqNo,
   transactionLogSize |-> 0,
   init |-> reopenAtSeqNo # NoReopen,
   reopened |-> reopenAtSeqNo # NoReopen]   \* ghost: created by a reopen

\* push up to its first await: the pushes in flight after conn.push(D, ...) was called
\* on connection c with DatabaseState database (lines 36-84)
StartPush(ps, c, database, opening, reopenAtSeqNo) ==
  IF ~database.open THEN ps
  ELSE LET withBundle == database.bundleSeqNo > 0 /\ database.lastSeqNo = 0
       IN Append(ps,
             [NewPush EXCEPT
                !.pc = IF withBundle THEN "bundle" ELSE "query",
                !.conn = c, !.opening = opening, !.reopenAt = reopenAtSeqNo,
                !.bundleSeqNo = database.bundleSeqNo,
                !.seqNoParam = database.lastSeqNo,
                !.lastSeqNo = database.lastSeqNo])

\* the model can hold one more push in flight
HasFreeSlot(ps) == Len(ps) < MaxPushes

\* the pushes in flight without the p-th
Without(ps, p) == [i \in 1..(Len(ps) - 1) |-> IF i < p THEN ps[i] ELSE ps[i + 1]]

\* a re-check of lines 127-140 that closes the socket before it returns
WarnAndClose(database) ==
  [msgs |-> <<>>, db |-> database, warned |-> {Warning("push", "Precondition Violated")}]

\* a re-check of lines 127-140 failed: logger.warn, then return; nothing is sent and
\* the socket stays open
WarnAndReturn(database) ==
  [msgs |-> <<>>, db |-> database, warned |-> {Warning("push", "")}]

\* lines 127-155: the re-checks after the scan, the empty result, sendPayload
Finish(P, ddbTransactionLog, database) ==
  LET openingDatabase == P.opening
      reopeningDatabase == P.reopenAt # NoReopen
      payload == PayloadOf(P)
  IN IF openingDatabase /\ database.lastSeqNo # 0 THEN WarnAndReturn(database)
     ELSE IF reopeningDatabase /\ database.lastSeqNo # P.reopenAt
       THEN WarnAndReturn(database)
     ELSE IF ~openingDatabase /\ ~database.init THEN WarnAndReturn(database)
     ELSE IF Len(ddbTransactionLog) = 0
       THEN IF openingDatabase \/ reopeningDatabase
            THEN [msgs |-> <<Message(payload, <<>>, FALSE, database)>>,
                  db |-> [database EXCEPT
                            !.lastSeqNo = IF payload.hasBundle THEN payload.bundleSeqNo ELSE @,
                            !.init = TRUE],
                  warned |-> {}]
            ELSE [msgs |-> <<>>, db |-> database, warned |-> {}]
     ELSE LET r == sendPayload(payload, ddbTransactionLog, database)
          IN [msgs |-> r.msgs, db |-> r.db, warned |-> {}]

\* the age test of line 93 left out: every gap is rolled back at once
PastRollbackThresholdAlways(item) == TRUE

\* secondsSinceCreation > SECONDS_BEFORE_ROLLBACK_GAP_TRIGGERED for the item with
\* sequence-no item (lines 90-93)
PastRollbackThreshold(item) == log[item].old

RECURSIVE ScanPage(_, _, _, _)
\* the for loop over one page (lines 86-116) up to its end or to the first gap:
\* kind "end" (page exhausted), "young" (gap, item too recent: scan stops) or
\* "old" (gap past the rollback threshold: rollback is awaited)
ScanPage(page, lastSeqNo, buffer, database) ==
  IF page = <<>> THEN [kind |-> "end", lastSeqNo |-> lastSeqNo, buffer |-> buffer, gapSeqNo |-> 0]
  ELSE LET item == Head(page)
           gapInSeqNo == item > lastSeqNo + 1
       IN IF gapInSeqNo /\ PastRollbackThreshold(item)
          THEN [kind |-> "old", lastSeqNo |-> lastSeqNo, buffer |-> buffer, gapSeqNo |-> item]
          ELSE IF gapInSeqNo
          THEN [kind |-> "young", lastSeqNo |-> lastSeqNo, buffer |-> buffer, gapSeqNo |-> item]
          ELSE ScanPage(Tail(page), item,
                        IF item > database.lastSeqNo THEN Append(buffer, Item(item))
                        ELSE buffer,
                        database)

\* ghost: the result of a push whose scan ended as kind says, at the record t
ScanEnded(result, kind, t) ==
  [result EXCEPT !.msgs = IF @ = <<>> THEN @
                          ELSE <<[@[1] EXCEPT !.gap = [kind |-> kind, seqNo |-> t]]>>]

\* the push ends: the messages go out on its connection
EndPush(p, result) ==
  /\ pushes' = Without(pushes, p)
  /\ databases' = [databases EXCEPT ![pushes[p].conn] = result.db]
  /\ delivered' = [delivered EXCEPT ![pushes[p].conn] = Delivered(@, result.msgs)]
  /\ lastSent' = [lastSent EXCEPT ![pushes[p].conn] = LastOf(@, result.msgs)]
  /\ warned' = warned \cup result.warned

\* push as if its catch block sent what the scan had gathered before it threw
PushThrowsFlushing(p) ==
  EndPush(p, Finish(pushes[p], pushes[p].buffer, databases[pushes[p].conn]))

\* the store operation push p awaits rejects: push throws at its await (the bundle
\* fetch of line 58 is outside the try; lines 122-125 log and throw again), nothing
\* is sent and the DatabaseState is not touched
PushThrows(p) ==
  /\ pushes' = Without(pushes, p)
  /\ UNCHANGED <<databases, delivered, lastSent, warned>>

\* db.getBundle (line 58) or the range query (line 84) rejects
StoreFails(p) ==
  /\ p \in DOMAIN pushes
  /\ pushes[p].pc \in {"bundle", "query"}
  /\ PushThrows(p)
  /\ UNCHANGED <<log, pendingFan, bundleAt, opens>>
  /\ UNCHANGED regVars
  /\ UNCHANGED clientVars
  /\ UNCHANGED storeVars

\* db.getBundle answers (lines 58-61)
GetBundleReturn(p) ==
  /\ p \in DOMAIN pushes
  /\ pushes[p].pc = "bundle"
  /\ pushes' = [pushes EXCEPT ![p].pc = "query", ![p].hasBundle = TRUE,
                              ![p].lastSeqNo = pushes[p].bundleSeqNo,
                              ![p].seqNoParam = pushes[p].bundleSeqNo]
  /\ UNCHANGED <<databases, log, pendingFan, bundleAt, opens, delivered, lastSent, warned>>
  /\ UNCHANGED regVars
  /\ UNCHANGED clientVars
  /\ UNCHANGED storeVars

\* the range query of line 84 answers (the store reads the table as it answers):
\* the loop over the page, then the next page's query, the first rollback put, or
\* the end of the push (lines 84-155)
QueryReturn(p) ==
  /\ p \in DOMAIN pushes
  /\ pushes[p].pc = "query"
  /\ LET P == pushes[p]
         database == databases[P.conn]
         page == QueryPage(P.seqNoParam, P.startKey)
         lek == LastEvaluatedKey(page)
         r == ScanPage(page, P.lastSeqNo, P.buffer, database)
     IN IF r.kind = "old"
        THEN /\ pushes' = [pushes EXCEPT ![p].pc = "put",
                                         ![p].lastSeqNo = r.lastSeqNo,
                                         ![p].buffer = r.buffer,
                                         ![p].gapSeqNo = r.gapSeqNo,
                                         ![p].rbNext = r.lastSeqNo + 1,
                                         ![p].rest = page[Len(page)] > r.gapSeqNo]
             /\ UNCHANGED <<databases, delivered, lastSent, warned>>
        ELSE IF r.kind = "end" /\ lek # 0
        THEN /\ pushes' = [pushes EXCEPT ![p].lastSeqNo = r.lastSeqNo,
                                         ![p].buffer = r.buffer,
                                         ![p].startKey = lek]
             /\ UNCHANGED <<databases, delivered, lastSent, warned>>
        ELSE EndPush(p, ScanEnded(Finish(P, r.buffer, database), r.kind, r.gapSeqNo))
  /\ UNCHANGED <<log, pendingFan, bundleAt, opens>>
  /\ UNCHANGED regVars
  /\ UNCHANGED clientVars
  /\ UNCHANGED storeVars

\* lines 96-114 without line 113: the item behind the gap is not added
AfterRollbackWithoutItem(P, database) ==
  LET window == SetToSeq((P.lastSeqNo + 1)..(P.gapSeqNo - 1))
      rolledBackTransactions == [i \in 1..Len(window) |-> RollbackItem(window[i])]
  IN P.buffer \o SelectSeq(rolledBackTransactions, LAMBDA t : t.seqNo > database.lastSeqNo)

\* the items rollback returned and the item behind the gap, as lines 96-114 add them
AfterRollback(P, database) ==
  LET window == SetToSeq((P.lastSeqNo + 1)..(P.gapSeqNo - 1))
      rolledBackTransactions == [i \in 1..Len(window) |-> RollbackItem(window[i])]
      all == rolledBackTransactions \o <<Item(P.gapSeqNo)>>
  IN P.buffer \o SelectSeq(all, LAMBDA t : t.seqNo > database.lastSeqNo)

\* ddbClient.put without its ConditionExpression
PutSucceedsAlways(n) == TRUE

\* ddbClient.put with attribute_not_exists: the slot is empty
PutSucceeds(n) == log[n].command = "None"

\* one conditional put of rollback answers (line 178; the store writes as it answers).
\* The slot is taken: the put fails, rollback and push throw.  Else the Rollback item is
\* stored and either the next put of the window is issued, or rollback returns and the
\* push, its gapInSeqNo still true, leaves both loops and ends (lines 96-155)
RollbackPut(p) ==
  /\ p \in DOMAIN pushes
  /\ pushes[p].pc = "put"
  /\ LET P == pushes[p]
         database == databases[P.conn]
     IN IF ~PutSucceeds(P.rbNext)
        THEN /\ PushThrows(p)
             /\ UNCHANGED log
        ELSE /\ log' = [log EXCEPT ![P.rbNext] =
                          [command |-> "Rollback", old |-> FALSE, size |-> ItemSize(P.rbNext)]]
             /\ IF P.rbNext + 1 <= P.gapSeqNo - 1
                THEN /\ pushes' = [pushes EXCEPT ![p].rbNext = P.rbNext + 1]
                     /\ UNCHANGED <<databases, delivered, lastSent, warned>>
                ELSE EndPush(p, ScanEnded(Finish(P, AfterRollback(P, database), database),
                                          "old", P.gapSeqNo))
  /\ UNCHANGED <<pendingFan, bundleAt, opens>>
  /\ UNCHANGED regVars
  /\ UNCHANGED clientVars
  /\ UNCHANGED storeVars

\* Connections.openDatabase(userId, connectionId, D, bundleSeqNo, dbNameHash, dbKey,
\* reopenAtSeqNo), called with the bundle-seq-no stored for D
openDatabase(userId, connectionId, reopenAtSeqNo) ==
  /\ opens < MaxOpens
  /\ HasFreeSlot(pushes)
  /\ opens' = opens + 1
  /\ IF ~Registered(userId, connectionId)
     THEN UNCHANGED <<databases, pushes>>
     ELSE LET database == IF ~databases[connectionId].open
                          THEN ConnOpenDatabase(bundleAt, reopenAtSeqNo)
                          ELSE databases[connectionId]
          IN /\ databases' = [databases EXCEPT ![connectionId] = database]
             /\ pushes' = StartPush(pushes, connectionId, database,
                                    reopenAtSeqNo = NoReopen, reopenAtSeqNo)
  /\ UNCHANGED <<log, pendingFan, bundleAt, delivered, lastSent, warned>>
  /\ UNCHANGED regVars
  /\ UNCHANGED clientVars
  /\ UNCHANGED storeVars

\* no connection takes the fast path
IsNextNever(n, database) == FALSE

\* the test of Connections.push line 308: the connection has D open and the committed
\* transaction is the next one it is to receive
IsNextForClient(n, database) == database.open /\ n = database.lastSeqNo + 1

RECURSIVE FanOut(_, _, _)
\* the loop of Connections.push over the user's connections (lines 304-318):
\* st holds the DatabaseStates, the pushes in flight and the messages sent so far;
\* ok turns false when the model has no push slot left for a slow-path push
FanOut(cs, n, st) ==
  IF cs = <<>> THEN st
  ELSE LET c == Head(cs)
           database == st.db[c]
       IN IF IsNextForClient(n, database)
          THEN LET r == sendPayload([hdr |-> FALSE, hasBundle |-> FALSE, bundleSeqNo |-> -1,
                                     reopen |-> FALSE, fast |-> TRUE], <<Item(n)>>, database)
               IN FanOut(Tail(cs), n,
                         [st EXCEPT !.db[c] = r.db,
                                    !.delivered[c] = Delivered(@, r.msgs),
                                    !.lastSent[c] = LastOf(@, r.msgs)])
          ELSE IF ~database.open THEN FanOut(Tail(cs), n, st)
          ELSE IF ~HasFreeSlot(st.ps) THEN [st EXCEPT !.ok = FALSE]
          ELSE FanOut(Tail(cs), n,
                      [st EXCEPT !.ps = StartPush(st.ps, c, database, FALSE, NoReopen)])

\* Connections.push(transaction, userId) for the committed transaction n of D
ConnectionsPush(n) ==
  /\ n \in pendingFan
  /\ pendingFan' = pendingFan \ {n}
  /\ IF DbOwner \notin DOMAIN sockets
     THEN UNCHANGED <<databases, pushes, delivered, lastSent>>
     ELSE LET st == FanOut(SetToSeq(sockets[DbOwner]), n,
                           [db |-> databases, ps |-> pushes, delivered |-> delivered,
                            lastSent |-> lastSent, ok |-> TRUE])
          IN /\ st.ok
             /\ databases' = st.db
             /\ pushes' = st.ps
             /\ delivered' = st.delivered
             /\ lastSent' = st.lastSent
  /\ UNCHANGED <<log, bundleAt, opens, warned>>
  /\ UNCHANGED regVars
  /\ UNCHANGED clientVars
  /\ UNCHANGED storeVars

\* ------------------------------------------------- the writer and the clock
\* the writer's put of the transaction that holds sequence number n (sequence numbers
\* are handed out densely before the puts, which land in any order or never; the put
\* is conditional on the slot being empty); Connections.push follows once it returned.
\* One commit at a time is between its put and its fan-out.
WriterPut(n) ==
  /\ pendingFan = {}
  /\ log[n].command = "None"
  /\ log' = [log EXCEPT ![n] = [command |-> "Insert", old |-> FALSE, size |-> ItemSize(n)]]
  /\ pendingFan' = pendingFan \cup {n}
  /\ UNCHANGED <<databases, bundleAt, pushes, opens, delivered, lastSent, warned>>
  /\ UNCHANGED regVars
  /\ UNCHANGED clientVars
  /\ UNCHANGED storeVars

\* more than SECONDS_BEFORE_ROLLBACK_GAP_TRIGGERED pass: every stored item is now
\* older than the rollback threshold
Tick ==
  /\ \E n \in Present : ~log[n].old
  /\ log' = [n \in SeqNos |-> IF log[n].command # "None" THEN [log[n] EXCEPT !.old = TRUE]
                              ELSE log[n]]
  /\ UNCHANGED <<databases, pendingFan, bundleAt, pushes, opens, delivered, lastSent, warned>>
  /\ UNCHANGED regVars
  /\ UNCHANGED clientVars
  /\ UNCHANGED storeVars

\* ------------------------------------------------------------- the client
MsgIds == 1..MaxMsgs

\* the queue entry of a handler that found the queue empty: enqueue(null)
NullEntry == 0

\* Queue of the client: isEmpty, enqueue, dequeue and peek of a first-in first-out
\* queue
IsEmpty(queue) == queue = <<>>
Enqueue(queue, entry) == Append(queue, entry)
Dequeue(queue) == IF queue = <<>> THEN queue ELSE Tail(queue)
Peek(queue) == Head(queue)

\* the ws.onmessage call of a message that has not arrived
NoHandler == [pc |-> "none", opening |-> FALSE, bundle |-> FALSE]

\* the client after D was created in state.databases: no message yet
ClientIdle ==
  /\ applyTransactionsQueue = <<>>
  /\ handlers = [m \in MsgIds |-> NoHandler]
  /\ dbKey = FALSE
  /\ started = <<>>

\* every handler proceeds at once
TakesSpotAlways(queue) == TRUE

\* the test of line 161: the handler takes a spot and proceeds
TakesSpot(queue) == IsEmpty(queue)

\* the awaits of lines 175-194, in order
Awaiting == {"decryptDbKey", "getKeyFromKeyString", "decryptBundle", "applyTransactions"}

\* lines 173-194 up to the next await, for a handler that passed the queue (at "enter")
\* or whose await of place pc returned: the place it awaits next, or "threw" for
\* 'Missing db key'
NextAwait(h, pc, hasKey) ==
  IF pc = "enter" /\ h.opening THEN "decryptDbKey"
  ELSE IF pc = "decryptDbKey" THEN "getKeyFromKeyString"
  ELSE IF pc \in {"enter", "getKeyFromKeyString"}
    THEN IF ~(hasKey \/ pc = "getKeyFromKeyString") THEN "threw"
         ELSE IF h.bundle THEN "decryptBundle"
         ELSE "applyTransactions"
  ELSE "applyTransactions"

\* ws.onmessage for the ApplyTransactions message m of D, up to its first await
\* (lines 153-175)
onmessage(m, opening, bundle) ==
  /\ handlers[m].pc = "none"
  /\ \A k \in 1..(m - 1) : handlers[k].pc # "none"
  /\ LET h == [pc |-> "none", opening |-> opening, bundle |-> bundle]
     IN IF TakesSpot(applyTransactionsQueue)
        THEN /\ applyTransactionsQueue' = Enqueue(applyTransactionsQueue, NullEntry)
             /\ handlers' = [handlers EXCEPT ![m] = [h EXCEPT !.pc = NextAwait(h, "enter", dbKey)]]
             /\ started' = Append(started, m)
        ELSE /\ applyTransactionsQueue' = Enqueue(applyTransactionsQueue, m)
             /\ handlers' = [handlers EXCEPT ![m] = [h EXCEPT !.pc = "waiting"]]
             /\ UNCHANGED started
  /\ UNCHANGED dbKey
  /\ UNCHANGED <<regVars, pipeVars, storeVars>>

\* the promise of line 168 was resolved: the handler of m goes on behind its await
\* (lines 173-175)
StartApplyingThisBatch(m) ==
  /\ handlers[m].pc = "resolved"
  /\ handlers' = [handlers EXCEPT ![m].pc = NextAwait(handlers[m], "enter", dbKey)]
  /\ started' = Append(started, m)
  /\ UNCHANGED <<applyTransactionsQueue, dbKey>>
  /\ UNCHANGED <<regVars, pipeVars, storeVars>>

\* an await of lines 175-194 returns: up to the next await, or, behind
\* applyTransactions, to the end of the case (lines 196-214): dequeue, then the
\* resolver at the head of the queue is called (calling the null entry throws)
AwaitReturns(m) ==
  /\ handlers[m].pc \in Awaiting
  /\ IF handlers[m].pc # "applyTransactions"
     THEN /\ handlers' = [handlers EXCEPT
                            ![m].pc = NextAwait(handlers[m], handlers[m].pc, dbKey)]
          /\ dbKey' = (dbKey \/ handlers[m].pc = "getKeyFromKeyString")
          /\ UNCHANGED applyTransactionsQueue
     ELSE LET queue == Dequeue(applyTransactionsQueue)
              next == IF IsEmpty(queue) THEN NullEntry ELSE Peek(queue)
          IN /\ applyTransactionsQueue' = queue
             /\ handlers' = [k \in MsgIds |->
                               IF k = m
                               THEN [handlers[k] EXCEPT
                                       !.pc = IF ~IsEmpty(queue) /\ next = NullEntry
                                              THEN "threw" ELSE "done"]
                               ELSE IF k = next /\ handlers[k].pc = "waiting"
                               THEN [handlers[k] EXCEPT !.pc = "resolved"]
                               ELSE handlers[k]]
             /\ UNCHANGED dbKey
  /\ UNCHANGED started
  /\ UNCHANGED <<regVars, pipeVars, storeVars>>

\* an await of lines 175-194 rejects: the catch of line 275 logs, and the handler
\* ends with its entry left in the queue
AwaitRejects(m) ==
  /\ handlers[m].pc \in Awaiting
  /\ handlers' = [handlers EXCEPT ![m].pc = "threw"]
  /\ UNCHANGED <<applyTransactionsQueue, dbKey, started>>
  /\ UNCHANGED <<regVars, pipeVars, storeVars>>

\* ------------------------------------------------ the pipeline specification
\* bundle-seq-no values D may have when the behaviour starts (0: no bundle)
InitBundles == {0, 1}

\* one socket of the owner is registered; D holds the transactions its bundle covers
Init ==
  /\ sockets = [u \in {DbOwner} |-> {1}]
  /\ uniqueClients = {"a"}
  /\ conns = [c \in ConnIds |-> IF c = 1 THEN NewConnection(DbOwner, "a") ELSE NoConnection]
  /\ nextConnId = 2
  /\ lastOp = NoOp
  /\ databases = [c \in ConnIds |-> NoDatabase]
  /\ bundleAt \in InitBundles
  /\ log = [n \in SeqNos |-> IF n <= bundleAt
                             THEN [command |-> "Insert", old |-> TRUE, size |-> ItemSize(n)]
                             ELSE NoItem]
  /\ pendingFan = {}
  /\ pushes = <<>>
  /\ opens = 0
  /\ delivered = [c \in ConnIds |-> <<>>]
  /\ lastSent = [c \in ConnIds |-> NoMessage]
  /\ warned = {}
  /\ ClientIdle
  /\ StoreIdle

\* reopenAtSeqNo values a client may send: none, 0, or a sequence number of the log
ReopenAts == {NoReopen, 0} \cup Present

Next ==
  \/ \E r \in ReopenAts : openDatabase(DbOwner, 1, r)
  \/ \E p \in PushIds : GetBundleReturn(p)
  \/ \E p \in PushIds : QueryReturn(p)
  \/ \E p \in PushIds : RollbackPut(p)
  \/ \E p \in PushIds : StoreFails(p)
  \/ \E n \in SeqNos : ConnectionsPush(n)
  \/ \E n \in SeqNos : WriterPut(n)
  \/ Tick

Spec == Init /\ [][Next]_vars

\* ------------------------------------------------ the fan-out specification
\* the owner's connections that are registered when the behaviour starts
FanConns == {1, 2}

\* two sockets of the owner are registered; D has no bundle and no transaction
InitFan ==
  /\ sockets = [u \in {DbOwner} |-> FanConns]
  /\ uniqueClients = {"a", "b"}
  /\ conns = [c \in ConnIds |-> IF c = 1 THEN NewConnection(DbOwner, "a")
                                 ELSE IF c = 2 THEN NewConnection(DbOwner, "b")
                                 ELSE NoConnection]
  /\ nextConnId = 3
  /\ lastOp = NoOp
  /\ databases = [c \in ConnIds |-> NoDatabase]
  /\ bundleAt \in InitBundles
  /\ log = [n \in SeqNos |-> IF n <= bundleAt
                             THEN [command |-> "Insert", old |-> TRUE, size |-> ItemSize(n)]
                             ELSE NoItem]
  /\ pendingFan = {}
  /\ pushes = <<>>
  /\ opens = 0
  /\ delivered = [c \in ConnIds |-> <<>>]
  /\ lastSent = [c \in ConnIds |-> NoMessage]
  /\ warned = {}
  /\ ClientIdle
  /\ StoreIdle

NextFan ==
  \/ \E c \in FanConns : openDatabase(DbOwner, c, NoReopen)
  \/ \E p \in PushIds : GetBundleReturn(p)
  \/ \E p \in PushIds : QueryReturn(p)
  \/ \E p \in PushIds : RollbackPut(p)
  \/ \E n \in SeqNos : ConnectionsPush(n)
  \/ \E n \in SeqNos : WriterPut(n)
  \/ Tick

SpecFan == InitFan /\ [][NextFan]_vars

\* --------------------------------------------- the first-open specification
\* D has a bundle at bundleAt > 0 and the transactions up to some n >= bundleAt, none
\* missing; nothing is committed while the owner's two connections open D
InitOpen ==
  /\ sockets = [u \in {DbOwner} |-> FanConns]
  /\ uniqueClients = {"a", "b"}
  /\ conns = [c \in ConnIds |-> IF c = 1 THEN NewConnection(DbOwner, "a")
                                 ELSE IF c = 2 THEN NewConnection(DbOwner, "b")
                                 ELSE NoConnection]
  /\ nextConnId = 3
  /\ lastOp = NoOp
  /\ databases = [c \in ConnIds |-> NoDatabase]
  /\ bundleAt \in SeqNos
  /\ \E n \in bundleAt..MaxSeq :
        log = [i \in SeqNos |-> IF i <= n
                                THEN [command |-> "Insert", old |-> TRUE, size |-> ItemSize(i)]
                                ELSE NoItem]
  /\ pendingFan = {}
  /\ pushes = <<>>
  /\ opens = 0
  /\ delivered = [c \in ConnIds |-> <<>>]
  /\ lastSent = [c \in ConnIds |-> NoMessage]
  /\ warned = {}
  /\ ClientIdle
  /\ StoreIdle

NextOpen ==
  \/ \E c \in FanConns : openDatabase(DbOwner, c, NoReopen)
  \/ \E p \in PushIds : GetBundleReturn(p)
  \/ \E p \in PushIds : QueryReturn(p)

SpecOpen == InitOpen /\ [][NextOpen]_vars

\* ------------------------------------------- the missing-entry specification
\* two sockets of one user are registered and have validated their keys: sockets of
\* the owner of D, or of another user, so that the owner has no entry in the registry
InitClose ==
  /\ \E u \in Users :
        /\ sockets = [x \in {u} |-> FanConns]
        /\ conns = [c \in ConnIds |-> IF c = 1 THEN validateKey(NewConnection(u, "a"))
                                       ELSE IF c = 2 THEN validateKey(NewConnection(u, "b"))
                                       ELSE NoConnection]
  /\ uniqueClients = {"a", "b"}
  /\ nextConnId = 3
  /\ lastOp = NoOp
  /\ databases = [c \in ConnIds |-> NoDatabase]
  /\ bundleAt = 0
  /\ log = [n \in SeqNos |-> NoItem]
  /\ pendingFan = {}
  /\ pushes = <<>>
  /\ opens = 0
  /\ delivered = [c \in ConnIds |-> <<>>]
  /\ lastSent = [c \in ConnIds |-> NoMessage]
  /\ warned = {}
  /\ ClientIdle
  /\ StoreIdle

\* sockets close while the owner's clients open D, commit in sequence and exchange
\* seeds; a call may name a socket that has closed meanwhile
NextClose ==
  \/ \E c \in FanConns : close(c)
  \/ \E c \in FanConns : openDatabase(DbOwner, c, NoReopen)
  \/ \E p \in PushIds : QueryReturn(p)
  \/ \E n \in SeqNos : ConnectionsPush(n)
  \/ \E n \in SeqNos : (\A m \in 1..(n - 1) : log[m].command # "None") /\ WriterPut(n)
  \/ \E c \in FanConns : sendSeedRequest(DbOwner, c, SenderKey)
  \/ sendSeed(DbOwner, SenderKey, SenderKey)

SpecClose == InitClose /\ [][NextClose]_vars

\* ----------------------------------------------- the registry specification
\* the pipeline's state while no database is open and nothing is committed
PipeIdle ==
  /\ databases = [c \in ConnIds |-> NoDatabase]
  /\ log = [n \in SeqNos |-> NoItem]
  /\ pendingFan = {}
  /\ bundleAt = 0
  /\ pushes = <<>>
  /\ opens = 0
  /\ delivered = [c \in ConnIds |-> <<>>]
  /\ lastSent = [c \in ConnIds |-> NoMessage]
  /\ warned = {}

\* before the first register: no socket, no client
InitRegistry ==
  /\ sockets = [u \in {} |-> {}]
  /\ uniqueClients = {}
  /\ conns = [c \in ConnIds |-> NoConnection]
  /\ nextConnId = 1
  /\ lastOp = NoOp
  /\ PipeIdle
  /\ ClientIdle
  /\ StoreIdle

NextRegistry ==
  \/ \E u \in Users, cl \in ClientIds : register(u, cl)
  \/ \E c \in ConnIds : close(c)

SpecRegistry == InitRegistry /\ [][NextRegistry]_vars

\* ------------------------------------------------ the two-users specification
\* the owner of D and another user have one socket each, both with their keys validated
InitUsers ==
  /\ sockets = [u \in Users |-> IF u = DbOwner THEN {1} ELSE {2}]
  /\ conns = [c \in ConnIds |-> IF c = 1 THEN validateKey(NewConnection(DbOwner, "a"))
                                 ELSE IF c = 2 THEN validateKey(NewConnection("u2", "b"))
                                 ELSE NoConnection]
  /\ uniqueClients = {"a", "b"}
  /\ nextConnId = 3
  /\ lastOp = NoOp
  /\ PipeIdle
  /\ ClientIdle
  /\ StoreIdle

\* the owner opens D and commits in sequence while devices of both users request and
\* send seeds, each request naming the requester's own socket and user
NextUsers ==
  \/ openDatabase(DbOwner, 1, NoReopen)
  \/ \E p \in PushIds : QueryReturn(p)
  \/ \E n \in SeqNos : ConnectionsPush(n)
  \/ \E n \in SeqNos : (\A m \in 1..(n - 1) : log[m].command # "None") /\ WriterPut(n)
  \/ \E c \in FanConns, k \in PubKeys : sendSeedRequest(conns[c].userId, c, k)
  \/ \E u \in Users, k \in PubKeys : sendSeed(u, SenderKey, k)

SpecUsers == InitUsers /\ [][NextUsers]_vars

\* ------------------------------------------------ the sign-up specification
\* the user ids of SignUpIds
IssuedIds == {SignUpIds[i] : i \in 1..Len(SignUpIds)}

\* some connection of the user has validated its key
KeyValidated(userId) == \E c \in Created : conns[c].userId = userId /\ conns[c].keyValidated

\* nobody signed up, nobody connected
InitSignUp ==
  /\ sockets = [u \in {} |-> {}]
  /\ uniqueClients = {}
  /\ conns = [c \in ConnIds |-> NoConnection]
  /\ nextConnId = 1
  /\ lastOp = NoOp
  /\ PipeIdle
  /\ ClientIdle
  /\ StoreIdle

\* sign-ups for the one (username, app-id); sockets connect with the user their
\* session's user id names and validate their key with the right message or a
\* wrong one; a user with a validated socket changes its username
NextSignUp ==
  \/ \E k \in PubKeys, r \in SignUpRequests, o \in SignUpOutcomes : signUp(k, r, o)
  \/ \E u \in IssuedIds : getUserByUserId(u)
  \/ \E cl \in ClientIds :
        /\ nextConnId <= MaxConn
        /\ userOf[nextConnId] # NoUser
        /\ register(userOf[nextConnId].userId, cl)
  \/ \E c \in ConnIds, up \in {Base64(<<255>>), <<255>>}, f \in BOOLEAN :
        validateKeyOfUser(<<255>>, up, c, f)
  \/ \E u \in IssuedIds : KeyValidated(u) /\ updateUser(u)

SpecSignUp == InitSignUp /\ [][NextSignUp]_vars

\* ------------------------------------ the seed exchange of user.js, specified
\* the item of the user DbOwner once its seed is saved
OwnerItem ==
  [userId |-> DbOwner, publicKey |-> SenderKey, seedNotSavedYet |-> FALSE, deleted |-> FALSE]

\* two devices of DbOwner are connected: socket 1 has validated its key, socket 2 is
\* a new device without the seed; the SeedExchange table holds what earlier sockets
\* of the user left behind
InitExchange ==
  /\ sockets = [u \in {DbOwner} |-> {1, 2}]
  /\ conns = [c \in ConnIds |-> IF c = 1 THEN validateKey(NewConnection(DbOwner, "a"))
                                 ELSE IF c = 2 THEN NewConnection(DbOwner, "b")
                                 ELSE NoConnection]
  /\ uniqueClients = {"a", "b"}
  /\ nextConnId = 3
  /\ lastOp = NoOp
  /\ PipeIdle
  /\ ClientIdle
  /\ users = OwnerItem
  /\ userOf = [c \in ConnIds |-> IF c \in {1, 2} THEN OwnerItem ELSE NoUser]
  /\ issued = 0
  /\ overwritten = {}
  /\ seedSaved = {DbOwner}
  /\ seedExchange \in [PubKeys -> {NoExchange, NoSeed, "e1"}]
  /\ seedCalls = [c \in ConnIds |-> NoCall]
  /\ sentSeedTo = [c \in ConnIds |-> {}]
  /\ processingSeedRequest = [c \in ConnIds |-> {}]
  /\ inbox = [c \in ConnIds |-> {}]
  /\ obtained = [c \in ConnIds |-> {}]
  /\ SessionIdle

\* the new device requests the seed, once on its connection as the client does on
\* the Connection message; the validated device asks for the open requests, is told
\* of requests, and sends the seed; sockets close
NextExchange ==
  \/ \E c \in FanConns, k \in PubKeys \cup {NoKey}, f \in BOOLEAN :
        ~conns[c].keyValidated /\ seedCalls[c].op = "none" /\ UserRequestSeed(c, k, f)
  \/ \E c \in FanConns, f \in BOOLEAN : UserRequestSeedAfterPut(c, f)
  \/ \E c \in FanConns : UserRequestSeedAfterGet(c)
  \/ \E c \in FanConns : UserQuerySeedRequests(c)
  \/ \E c \in FanConns, k \in PubKeys, y \in BOOLEAN : ClientSendSeed(c, k, y, "e2")
  \/ \E c \in FanConns, f \in BOOLEAN : UserSendSeed(c, f)
  \/ \E c \in FanConns : UserSendSeedAfterUpdate(c)
  \/ \E c \in FanConns : close(c)

SpecExchange == InitExchange /\ [][NextExchange]_vars

\* the seed exchange with the scheduling the runtime gives: a store call that was
\* issued returns and its handler continues, a client handles the requests it was
\* told of, and its user confirms
SpecExchangeFair ==
  /\ InitExchange
  /\ [][NextExchange]_vars
  /\ WF_vars(\E c \in FanConns : UserRequestSeedAfterPut(c, FALSE))
  /\ WF_vars(\E c \in FanConns : UserRequestSeedAfterGet(c))
  /\ WF_vars(\E c \in FanConns, k \in PubKeys : ClientSendSeed(c, k, TRUE, "e2"))
  /\ WF_vars(\E c \in FanConns : UserSendSeed(c, FALSE))
  /\ WF_vars(\E c \in FanConns : UserSendSeedAfterUpdate(c))

\* ------------------------------------------- the seed exchange specification
\* the client id of the i-th socket: every socket comes from another client
ClientOf == CHOOSE f \in [ConnIds -> ClientIds] : \A i, j \in ConnIds : f[i] = f[j] => i = j

\* the registry after MaxConn sockets of distinct clients registered, each under
\* some user: what register leaves behind (no key validated, no seed request yet)
InitSeed ==
  /\ \E owner \in [ConnIds -> Users] :
        /\ sockets = [u \in {owner[c] : c \in ConnIds} |-> {c \in ConnIds : owner[c] = u}]
        /\ conns = [c \in ConnIds |-> NewConnection(owner[c], ClientOf[c])]
  /\ uniqueClients = {ClientOf[c] : c \in ConnIds}
  /\ nextConnId = MaxConn + 1
  /\ lastOp = NoOp
  /\ PipeIdle
  /\ ClientIdle
  /\ StoreIdle

\* a seed request names the requester's own socket and its user; the socket may
\* have been closed while requestSeed awaited the store; the clients that validate
\* their key send the right message
NextSeed ==
  \/ \E c \in ConnIds : close(c)
  \/ \E c \in ConnIds : UserValidateKey(<<255>>, Base64(<<255>>), FALSE, "ok", c)
  \/ \E c \in ConnIds : deleteSeedRequest(c)
  \/ \E c \in ConnIds, k \in PubKeys : sendSeedRequest(conns[c].userId, c, k)
  \/ \E u \in Users, k \in PubKeys : sendSeed(u, SenderKey, k)

SpecSeed == InitSeed /\ [][NextSeed]_vars

\* ------------------------------------------------- the sessions specification
\* the user DbOwner exists and has no session yet
InitSession ==
  /\ sockets = [u \in {} |-> {}]
  /\ uniqueClients = {}
  /\ conns = [c \in ConnIds |-> NoConnection]
  /\ nextConnId = 1
  /\ lastOp = NoOp
  /\ PipeIdle
  /\ ClientIdle
  /\ users = OwnerItem
  /\ userOf = [c \in ConnIds |-> NoUser]
  /\ issued = 0
  /\ overwritten = {}
  /\ seedSaved = {DbOwner}
  /\ ExchangeIdle
  /\ SessionIdle

\* the session ids a request can carry: those createSession has generated (a
\* random id is fresh, nobody holds it before) and the id that is never generated
HeldSessionIds == {SessionSeq[i] : i \in 1..issuedSessions} \cup {UnknownSession}

\* the user signs in for the app app1, requests arrive with a session id and an app
\* id and extend the session once authenticated, sessions are signed out, the user
\* is deleted, and time passes
NextSession ==
  \/ createSession(DbOwner, "app1")
  \/ \E r \in AuthReqs, s \in HeldSessionIds \cup {NoSessionId}, a \in AppIds \cup {NoAppId},
        f \in BOOLEAN : authenticateUser(r, s, a, f)
  \/ \E r \in AuthReqs, f \in BOOLEAN : authenticateUserAfterGet(r, f)
  \/ \E r \in AuthReqs, a \in BOOLEAN, f \in BOOLEAN : authenticateUserAfterReads(r, a, f)
  \/ \E r \in AuthReqs, a \in BOOLEAN : authenticateUserAfterAdmin(r, a)
  \/ \E r \in AuthReqs, f \in BOOLEAN : extendSession(r, f)
  \/ \E s \in HeldSessionIds, f \in BOOLEAN : signOut(s, f)
  \/ \E s \in SessionIds : signOutAfterUpdate(s)
  \/ deleteUser(DbOwner)
  \/ TickHalfDay

SpecSession == InitSession /\ [][NextSession]_vars

\* ------------------------------------------- the key validation specification
\* the sockets of InitSeed validate their keys, with any message and any outcome of
\* the store, and request the seed
NextKey ==
  \/ \E c \in ConnIds, vm \in Buffers, up \in Provided, s \in BOOLEAN, o \in StoreOutcomes :
        UserValidateKey(vm, up, s, o, c)
  \/ \E c \in ConnIds, k \in PubKeys : sendSeedRequest(conns[c].userId, c, k)

SpecKey == InitSeed /\ [][NextKey]_vars

\* ------------------------------------------------- the client specification
\* the server idle; the client has opened D and awaits its messages
InitClient ==
  /\ sockets = [u \in {} |-> {}]
  /\ uniqueClients = {}
  /\ conns = [c \in ConnIds |-> NoConnection]
  /\ nextConnId = 1
  /\ lastOp = NoOp
  /\ PipeIdle
  /\ ClientIdle
  /\ StoreIdle

NextClient ==
  \/ \E m \in MsgIds, opening \in BOOLEAN, bundle \in BOOLEAN : onmessage(m, opening, bundle)
  \/ \E m \in MsgIds : StartApplyingThisBatch(m)
  \/ \E m \in MsgIds : AwaitReturns(m)
  \/ \E m \in MsgIds : AwaitRejects(m)

SpecClient == InitClient /\ [][NextClient]_vars

\* ================================================================== claims
\* the highest sequence number in the table (0: the table is empty)
MaxPresent == IF Present = {} THEN 0 ELSE CHOOSE n \in Present : \A m \in Present : m <= n

\* the registered connections that were constructed with clientId cl
LiveOf(cl) == {c \in Live : conns[c].clientId = cl}

\* C1: monotonic delivery: on every socket the concatenation of the seqNos of all
\* messages emitted for the database is strictly increasing
C1_MonotonicDelivery ==
  \A c \in ConnIds : \A i, j \in 1..Len(delivered[c]) :
     i < j => delivered[c][i] < delivered[c][j]

\* C2: contiguity: on a database opened without reopenAtSeqNo the first seqNo emitted
\* is max(1, bundleSeqNo + 1) and every later seqNo is its predecessor plus one
C2_Contiguity ==
  \A c \in ConnIds :
     (databases[c].open /\ ~databases[c].reopened /\ delivered[c] # <<>>) =>
        /\ delivered[c][1] = Max(1, databases[c].bundleSeqNo + 1)
        /\ \A i \in 1..(Len(delivered[c]) - 1) : delivered[c][i + 1] = delivered[c][i] + 1

\* C3: no pre-open transactions: a message emitted while init is false carries the
\* opening header or answers a reopen
C3_NoPreOpenTransactions ==
  \A c \in ConnIds :
     (lastSent[c] # NoMessage /\ ~lastSent[c].pre.init) =>
        lastSent[c].hdr \/ lastSent[c].reopen

\* C4: registry uniqueness: a clientId is in uniqueClients if and only if exactly one
\* registered connection has that clientId
C4_RegistryUniqueness ==
  \A cl \in ClientIds : cl \in uniqueClients <=> Cardinality(LiveOf(cl)) = 1

\* C5: duplicate clientId rejection: register with a clientId that is in uniqueClients
\* returns false, closes the socket with 'Client Already Connected', constructs no
\* Connection and leaves the registered connections and uniqueClients as they were
C5_DuplicateClientRejected ==
  [][\A u \in Users, cl \in ClientIds :
       (cl \in uniqueClients /\ register(u, cl)) =>
          /\ lastOp'.ret = "false"
          /\ lastOp'.closeCode = "Client Already Connected"
          /\ conns' = conns
          /\ nextConnId' = nextConnId
          /\ Live' = Live
          /\ uniqueClients' = uniqueClients]_vars

\* a register was rejected for a clientId that a connection of another user holds,
\* and that connection is still registered
C5_Witness ==
  /\ lastOp.op = "register"
  /\ lastOp.ret = "false"
  /\ \E c \in LiveOf(lastOp.key) : conns[c].userId # lastOp.userId

\* C6: close is idempotent: close on a connection that was closed before leaves
\* sockets and uniqueClients as they were
C6_CloseIdempotent ==
  [][\A c \in ConnIds :
       (c \in Created /\ ~Registered(conns[c].userId, c) /\ close(c)) =>
          (sockets' = sockets /\ uniqueClients' = uniqueClients)]_vars

\* what a connection emits that was asked for the seed with the key of lastOp
SeedRequestFor(c) ==
  IF conns[c].keyValidated
  THEN <<[route |-> "ReceiveRequestForSeed", requesterPublicKey |-> lastOp.key]>>
  ELSE <<>>

\* C7: seed requests reach validated devices only: during sendSeedRequest every
\* validated connection of the user emits exactly one ReceiveRequestForSeed, and
\* no other connection emits anything
C7_SeedRequestValidatedOnly ==
  lastOp.op = "sendSeedRequest" =>
     \A c \in ConnIds :
        lastOp.emitted[c] = IF Registered(lastOp.userId, c) THEN SeedRequestFor(c) ELSE <<>>

\* C7 as the code has it: the same, provided the origin connection is registered
\* under the user when sendSeedRequest runs; if it is not, no connection emits
C7_SeedRequestValidatedOnlyIfOriginRegistered ==
  lastOp.op = "sendSeedRequest" =>
     \A c \in ConnIds :
        lastOp.emitted[c] = IF lastOp.wasRegistered /\ Registered(lastOp.userId, c)
                            THEN SeedRequestFor(c) ELSE <<>>

\* a seed request of an unvalidated origin reached a validated sibling and not the origin
C7_Witness ==
  /\ lastOp.op = "sendSeedRequest"
  /\ lastOp.wasRegistered
  /\ ~conns[lastOp.conn].keyValidated
  /\ lastOp.emitted[lastOp.conn] = <<>>
  /\ \E c \in ConnIds : Registered(lastOp.userId, c) /\ Len(lastOp.emitted[c]) = 1

\* C8: seed delivery reaches the requester only: during sendSeed a connection emits
\* ReceiveSeed only if it is a connection of the user whose pending requesterPublicKey
\* equals the one of the call, and then exactly one; every other connection emits nothing
C8_SeedToRequesterOnly ==
  lastOp.op = "sendSeed" =>
     \A c \in ConnIds :
        lastOp.emitted[c] =
           IF /\ Registered(lastOp.userId, c)
              /\ conns[c].requesterPublicKey # NoKey
              /\ conns[c].requesterPublicKey = lastOp.key
           THEN <<[route |-> "ReceiveSeed", senderPublicKey |-> SenderKey]>>
           ELSE <<>>

\* a seed reached the requester, while another connection of the user, whose
\* requesterPublicKey is unset or different, emitted nothing
C8_Witness ==
  /\ lastOp.op = "sendSeed"
  /\ \E c, d \in ConnIds :
        /\ Registered(lastOp.userId, c) /\ Registered(lastOp.userId, d)
        /\ Len(lastOp.emitted[c]) = 1
        /\ conns[d].requesterPublicKey # lastOp.key
        /\ lastOp.emitted[d] = <<>>

\* the estimated size of the records of message m
SizeOf(m) == SumSizes([i \in 1..Len(m.transactionLog) |-> Item(m.transactionLog[i].seqNo)])

\* C9: bundle trigger law: a message of sendPayload carries buildBundle exactly when
\* transactionLogSize before the send plus the size of its records is >= 51200; after
\* such a message transactionLogSize is 0, after any other it has grown by that size
C9_BundleTriggerLaw ==
  \A c \in ConnIds :
     (lastSent[c] # NoMessage /\ lastSent[c].transactionLog # <<>>) =>
        LET m == lastSent[c]
            total == m.pre.transactionLogSize + SizeOf(m)
        IN /\ m.buildBundle <=> total >= 1024 * 50
           /\ databases[c].transactionLogSize = IF m.buildBundle THEN 0 ELSE total

\* a message was sent that brought the counter to the trigger exactly
C9_Witness ==
  \E c \in ConnIds :
     /\ lastSent[c] # NoMessage
     /\ lastSent[c].transactionLog # <<>>
     /\ lastSent[c].buildBundle
     /\ lastSent[c].pre.transactionLogSize + SizeOf(lastSent[c]) = 1024 * 50
     /\ databases[c].transactionLogSize = 0

\* C10: eventual consistency, as a final result: once no push is in flight, no
\* fan-out is outstanding and the log has no gap, every registered socket with the
\* database open and initialised has lastSeqNo at the highest sequence number
C10_QuiescentCaughtUp ==
  (pushes = <<>> /\ pendingFan = {} /\ Present = 1..MaxPresent) =>
     \A c \in Live :
        (databases[c].open /\ databases[c].init) => databases[c].lastSeqNo = MaxPresent

\* C11: lastSeqNo never decreases, and right after a message with a non-empty
\* transactionLog went out it equals the last seqNo of that message
C11_LastSeqNoNeverDecreases ==
  [][\A c \in ConnIds :
       /\ databases'[c].lastSeqNo >= databases[c].lastSeqNo
       /\ Len(delivered'[c]) > Len(delivered[c]) =>
             databases'[c].lastSeqNo = delivered'[c][Len(delivered'[c])]]_vars

\* C12: the opening header appears once and first: a message that carries
\* dbNameHash/dbKey is the first message the socket is sent for the database
C12_HeaderOnlyOnFirstMessage ==
  \A c \in ConnIds :
     (lastSent[c] # NoMessage /\ lastSent[c].hdr) => lastSent[c].first

\* C13: the bundle preface only when needed: a message that carries the bundle goes
\* out only while database.lastSeqNo is 0
C13_BundleOnlyAtZero ==
  \A c \in ConnIds :
     (lastSent[c] # NoMessage /\ lastSent[c].bundleSeqNo > 0) =>
        lastSent[c].pre.lastSeqNo = 0

\* the conditional put push p awaits finds its slot taken
PutFails(p) ==
  p \in DOMAIN pushes /\ pushes[p].pc = "put" /\ ~PutSucceeds(pushes[p].rbNext)

\* C14: store errors are absorbed at the push boundary: when the bundle fetch, the
\* range query or a rollback conditional put of a push fails, no message goes out,
\* every DatabaseState stays as it is, and the fan-out dispatcher is not involved:
\* the commits that wait for Connections.push are the same before and after
C14_StoreErrorsAbsorbed ==
  [][\A p \in PushIds :
       (StoreFails(p) \/ (PutFails(p) /\ RollbackPut(p))) =>
          /\ databases' = databases
          /\ delivered' = delivered
          /\ lastSent' = lastSent
          /\ pendingFan' = pendingFan
          /\ Len(pushes') = Len(pushes) - 1]_vars

\* the only openDatabase call was a first-time open whose push is over, and the socket
\* was sent nothing: the push failed at the store (an opening push that finds
\* lastSeqNo = 0 at its end always sends)
C14_Witness ==
  /\ opens = 1
  /\ pushes = <<>>
  /\ databases[1].open /\ ~databases[1].reopened
  /\ databases[1].lastSeqNo = 0 /\ ~databases[1].init
  /\ lastSent[1] = NoMessage

\* C15: only a duplicate clientId closes a socket: every close code a socket was
\* given is the 'Client Already Connected' of a rejected register; a push that
\* returns on a failed re-check, like every seed operation, closes nothing
C15_OnlyDuplicateClientCloses ==
  /\ \A w \in warned :
        w.closeCode # "" => (w.at = "register" /\ w.closeCode = "Client Already Connected")
  /\ lastOp.closeCode # "" => (lastOp.op = "register" /\ lastOp.ret = "false")

\* a push returned on a failed re-check while its socket had been sent nothing, and
\* no push is left that could send
C15_Witness ==
  /\ Warning("push", "") \in warned
  /\ lastSent[1] = NoMessage
  /\ pushes = <<>>

\* C16: key validation gate: keyValidated never returns to false; it becomes true
\* only in a validateKey whose client-provided message equals the encoding of the
\* server's message; a validateKey whose messages differ answers Unauthorized and
\* leaves every connection as it is; and a connection that is sent a seed request
\* is validated
C16_KeyValidationGate ==
  /\ [][\A c \in ConnIds :
          /\ conns[c].keyValidated => conns'[c].keyValidated
          /\ (~conns[c].keyValidated /\ conns'[c].keyValidated) =>
                (lastOp'.op = "validateKey" /\ lastOp'.conn = c /\ lastOp'.matched)]_vars
  /\ []((lastOp.op = "validateKey" /\ ~lastOp.matched) =>
          lastOp.ret = "Unauthorized: Failed to validate key")
  /\ [](lastOp.op = "sendSeedRequest" =>
          \A c \in ConnIds : lastOp.emitted[c] # <<>> => conns[c].keyValidated)

\* a validateKey with differing messages was answered Unauthorized and left its
\* connection unvalidated, while another connection of the same user is validated
C16_Witness ==
  /\ lastOp.op = "validateKey"
  /\ ~lastOp.matched
  /\ lastOp.ret = "Unauthorized: Failed to validate key"
  /\ ~conns[lastOp.conn].keyValidated
  /\ \E d \in ConnIds : Registered(lastOp.userId, d) /\ conns[d].keyValidated

\* C17: init is set once and batches then start at lastSeqNo+1: init never changes
\* back to false, and every message with records that goes out while init is true
\* has as first seqNo the DatabaseState's lastSeqNo + 1 before the send
C17_InitOnceThenNext ==
  /\ [][\A c \in ConnIds : databases[c].init => databases'[c].init]_vars
  /\ [](\A c \in ConnIds :
          (lastSent[c] # NoMessage /\ lastSent[c].pre.init
             /\ lastSent[c].transactionLog # <<>>) =>
             lastSent[c].transactionLog[1].seqNo = lastSent[c].pre.lastSeqNo + 1)

\* C17 as the code has it: the first seqNo is lastSeqNo + 1, or bundleSeqNo + 1
\* when the message carries the bundle
C17_InitOnceThenNextOrAfterBundle ==
  /\ [][\A c \in ConnIds : databases[c].init => databases'[c].init]_vars
  /\ [](\A c \in ConnIds :
          (lastSent[c] # NoMessage /\ lastSent[c].pre.init
             /\ lastSent[c].transactionLog # <<>>) =>
             \/ lastSent[c].transactionLog[1].seqNo = lastSent[c].pre.lastSeqNo + 1
             \/ /\ lastSent[c].bundleSeqNo > 0
                /\ lastSent[c].transactionLog[1].seqNo = lastSent[c].bundleSeqNo + 1)

\* a message with the bundle and the records after it went out while init was true
\* and lastSeqNo was below the bundle
C17_Witness ==
  \E c \in ConnIds :
     /\ lastSent[c] # NoMessage
     /\ lastSent[c].pre.init
     /\ lastSent[c].transactionLog # <<>>
     /\ lastSent[c].bundleSeqNo > lastSent[c].pre.lastSeqNo
     /\ lastSent[c].transactionLog[1].seqNo = lastSent[c].bundleSeqNo + 1
     /\ databases[c].init

\* the sequence number of the first record of a page that leaves a gap behind the
\* cursor or behind the record before it (0: the page has no gap)
FirstGap(page, cursor) ==
  LET gaps == {i \in 1..Len(page) :
                 page[i] > (IF i = 1 THEN cursor ELSE page[i - 1]) + 1}
  IN IF gaps = {} THEN 0 ELSE page[CHOOSE i \in gaps : \A j \in gaps : i <= j]

\* C18: young gap: when the page a push receives shows its first gap at a record t
\* that is not past the rollback threshold, the push writes nothing to the log, ends
\* without another query or put, and what it emits are records found before t
C18_YoungGapStopsScan ==
  [][\A p \in PushIds :
       (p \in DOMAIN pushes /\ pushes[p].pc = "query" /\ QueryReturn(p)) =>
          LET P == pushes[p]
              c == P.conn
              page == QueryPage(P.seqNoParam, P.startKey)
              t == FirstGap(page, P.lastSeqNo)
              found == {P.buffer[k].seqNo : k \in 1..Len(P.buffer)}
                         \cup {page[k] : k \in 1..Len(page)}
          IN (t # 0 /\ ~log[t].old) =>
                /\ log' = log
                /\ pushes' = Without(pushes, p)
                /\ \A i \in (Len(delivered[c]) + 1)..Len(delivered'[c]) :
                      delivered'[c][i] \in found /\ delivered'[c][i] < t]_vars

\* a push whose scan stopped at a young gap sent the records before the gap; the
\* record behind the gap is in the log and no Rollback sentinel was written
C18_Witness ==
  \E c \in ConnIds :
     /\ lastSent[c] # NoMessage
     /\ lastSent[c].gap.kind = "young"
     /\ lastSent[c].transactionLog # <<>>
     /\ lastSent[c].gap.seqNo \in Present
     /\ \A n \in SeqNos : log[n].command # "Rollback"

\* the last n elements of the sequence q
LastN(q, n) == SubSeq(q, Len(q) - n + 1, Len(q))

\* C19: old gap is rolled back: a push that met an old gap issues the conditional put
\* of a Rollback sentinel for every integer between its cursor and the record t
\* behind the gap: it ends only with the put for the last of them
C19_SentinelForEveryInteger ==
  [][\A p \in PushIds :
       (p \in DOMAIN pushes /\ pushes[p].pc = "put" /\ RollbackPut(p)
          /\ pushes' = Without(pushes, p)) =>
          pushes[p].rbNext = pushes[p].gapSeqNo - 1]_vars

\* C19 as the code has it: the sentinels are put one at a time in ascending order,
\* each on condition that its slot is empty; a put that finds its slot taken ends the
\* push, which then puts no further sentinel and emits nothing; when all puts
\* succeeded, a batch that goes out ends with the sentinels above database.lastSeqNo
\* in ascending order, immediately followed by t
C19_SentinelsInOrderUntilTaken ==
  [][\A p \in PushIds :
       (p \in DOMAIN pushes /\ pushes[p].pc = "put" /\ RollbackPut(p)) =>
          LET P == pushes[p]
              c == P.conn
              n == P.rbNext
              t == P.gapSeqNo
              window == (P.lastSeqNo + 1)..(t - 1)
              sent == SubSeq(delivered'[c], Len(delivered[c]) + 1, Len(delivered'[c]))
              tail == SetToSeq({k \in window : k > databases[c].lastSeqNo}) \o <<t>>
              m == lastSent'[c]
          IN /\ n \in window
             /\ \A k \in window : k < n => log[k].command = "Rollback"
             /\ IF log[n].command # "None"
                THEN /\ log' = log
                     /\ pushes' = Without(pushes, p)
                     /\ delivered' = delivered /\ lastSent' = lastSent
                ELSE /\ log'[n].command = "Rollback"
                     /\ \A k \in SeqNos \ {n} : log'[k] = log[k]
                     /\ n < t - 1 =>
                           /\ Len(pushes') = Len(pushes)
                           /\ pushes'[p].rbNext = n + 1
                           /\ delivered' = delivered
                     /\ n = t - 1 =>
                           /\ pushes' = Without(pushes, p)
                           /\ sent # <<>> =>
                                 /\ Len(sent) >= Len(tail)
                                 /\ LastN(sent, Len(tail)) = tail
                                 /\ \A i \in 1..Len(m.transactionLog) :
                                       m.transactionLog[i].seqNo \in window =>
                                          m.transactionLog[i].command = "Rollback"
                                 /\ m.transactionLog[Len(m.transactionLog)].command
                                       # "Rollback"]_vars

\* a push rolled an old gap of two back and sent both sentinels followed by the
\* record behind the gap
C19_Witness ==
  \E c \in ConnIds :
     /\ lastSent[c] # NoMessage
     /\ lastSent[c].gap.kind = "old"
     /\ LET tl == lastSent[c].transactionLog
        IN /\ Len(tl) >= 3
           /\ tl[Len(tl)].seqNo = lastSent[c].gap.seqNo
           /\ tl[Len(tl)].command = "Insert"
           /\ tl[Len(tl) - 1].command = "Rollback"
           /\ tl[Len(tl) - 2].command = "Rollback"

\* C20: the scan continues after a repaired gap: when the last sentinel of an old gap
\* is put and the page holds records after the record t behind the gap, the push
\* goes on: it stays in flight for a further put or query, or the batch it sends
\* reaches beyond t
C20_ScanContinuesAfterRepair ==
  [][\A p \in PushIds :
       (/\ p \in DOMAIN pushes /\ pushes[p].pc = "put" /\ pushes[p].rest
        /\ PutSucceeds(pushes[p].rbNext)
        /\ pushes[p].rbNext = pushes[p].gapSeqNo - 1
        /\ RollbackPut(p)
        /\ Len(delivered'[pushes[p].conn]) > Len(delivered[pushes[p].conn])) =>
          LET d == delivered'[pushes[p].conn]
          IN Len(pushes') = Len(pushes) \/ d[Len(d)] > pushes[p].gapSeqNo]_vars

\* the pushes in flight on connection c
PushesOf(ps, c) == {p \in DOMAIN ps : ps[p].conn = c}

\* C21: when the fan-out of the committed transaction n runs, every connection of the
\* user that has D open with lastSeqNo = n - 1 is sent exactly one message whose
\* transactionLog is the single entry n, no push (and so no store read) is started for
\* it, and its lastSeqNo becomes n; for every other connection that has D open exactly
\* one push is started, an incremental one without header arguments, and nothing is
\* sent to it in that step
C21_FastPathOrPush ==
  [][\A n \in SeqNos : ConnectionsPush(n) /\ DbOwner \in DOMAIN sockets =>
       \A c \in sockets[DbOwner] :
         IF databases[c].open /\ databases[c].lastSeqNo = n - 1
         THEN /\ delivered'[c] = Append(delivered[c], n)
              /\ lastSent'[c].transactionLog = <<WireItem(Item(n))>>
              /\ lastSent'[c].fast
              /\ ~lastSent'[c].hdr
              /\ databases'[c].lastSeqNo = n
              /\ PushesOf(pushes', c) = PushesOf(pushes, c)
              /\ \A p \in PushesOf(pushes, c) : pushes'[p] = pushes[p]
         ELSE IF databases[c].open
         THEN /\ delivered'[c] = delivered[c]
              /\ databases'[c] = databases[c]
              /\ \E p \in PushesOf(pushes', c) \ PushesOf(pushes, c) :
                   /\ PushesOf(pushes', c) = PushesOf(pushes, c) \cup {p}
                   /\ ~pushes'[p].opening
                   /\ pushes'[p].reopenAt = NoReopen
         ELSE /\ delivered'[c] = delivered[c]
              /\ databases'[c] = databases[c]
              /\ PushesOf(pushes', c) = PushesOf(pushes, c)]_vars

\* transaction 2 is the only one committed after the bundle at 1: connection 1, which had
\* received the bundle, was sent 2 on the fast path, and for connection 2, which had D
\* open at lastSeqNo 0, an incremental push was started
C21_Witness ==
  /\ bundleAt = 1
  /\ Present = {1, 2}
  /\ pendingFan = {}
  /\ delivered[1] = <<2>>
  /\ lastSent[1].fast
  /\ databases[1].lastSeqNo = 2
  /\ databases[2].open
  /\ databases[2].lastSeqNo = 0
  /\ \E p \in PushesOf(pushes, 2) : ~pushes[p].opening

\* the step ends push p after its scan: the last page was read or the last put of a
\* rollback returned, and lines 127-155 ran
ScanEnds(p) ==
  /\ p \in DOMAIN pushes
  /\ Len(pushes') < Len(pushes)
  /\ \/ pushes[p].pc = "query" /\ QueryReturn(p)
     \/ pushes[p].pc = "put" /\ PutSucceeds(pushes[p].rbNext) /\ RollbackPut(p)

\* C22: a push that ends after its scan is abandoned (it warns, emits nothing and leaves
\* the DatabaseState as it is) exactly when it is opening and lastSeqNo is not 0, or
\* it is reopening and lastSeqNo is not reopenAtSeqNo, or it is neither opening nor
\* reopening and init is false; a reopening push whose lastSeqNo equals reopenAtSeqNo
\* is not abandoned
C22_AbandonedExactly ==
  [][\A p \in PushIds : ScanEnds(p) =>
       LET P == pushes[p]
           c == P.conn
           database == databases[c]
           reopening == P.reopenAt # NoReopen
           abandon == \/ P.opening /\ database.lastSeqNo # 0
                      \/ reopening /\ database.lastSeqNo # P.reopenAt
                      \/ ~P.opening /\ ~reopening /\ ~database.init
       IN /\ abandon => /\ delivered'[c] = delivered[c]
                        /\ lastSent'[c] = lastSent[c]
                        /\ databases'[c] = databases[c]
          /\ ~abandon => warned' = warned]_vars

\* ddbTransactionLog as the scan of push p leaves it when the step ends the push
\* (lines 78-120)
ScanResult(p) ==
  LET P == pushes[p]
      database == databases[P.conn]
  IN IF P.pc = "query"
     THEN ScanPage(QueryPage(P.seqNoParam, P.startKey), P.lastSeqNo, P.buffer, database).buffer
     ELSE AfterRollback(P, database)

\* C23: a push whose scan yields no record and that the re-checks (opening with
\* lastSeqNo not 0, reopening with lastSeqNo not reopenAtSeqNo, neither with init
\* false) do not abandon: if it is opening or reopening it emits exactly one message
\* with an empty transactionLog, with the header when opening and the bundle when one
\* was attached, sets init to true, and sets lastSeqNo to bundleSeqNo when a bundle
\* was attached and leaves it otherwise; if it is incremental it emits nothing and
\* changes nothing
C23_EmptyResult ==
  [][\A p \in PushIds : ScanEnds(p) /\ ScanResult(p) = <<>> =>
       LET P == pushes[p]
           c == P.conn
           database == databases[c]
           reopening == P.reopenAt # NoReopen
           abandon == \/ P.opening /\ database.lastSeqNo # 0
                      \/ reopening /\ database.lastSeqNo # P.reopenAt
                      \/ ~P.opening /\ ~reopening /\ ~database.init
       IN ~abandon =>
            IF P.opening \/ reopening
            THEN /\ lastSent'[c].route = "ApplyTransactions"
                 /\ lastSent'[c].pre = database
                 /\ lastSent'[c].transactionLog = <<>>
                 /\ lastSent'[c].hdr = P.opening
                 /\ lastSent'[c].bundleSeqNo = (IF P.hasBundle THEN P.bundleSeqNo ELSE 0)
                 /\ delivered'[c] = delivered[c]
                 /\ databases'[c] =
                      [database EXCEPT !.init = TRUE,
                                       !.lastSeqNo = IF P.hasBundle THEN P.bundleSeqNo ELSE @]
            ELSE /\ lastSent'[c] = lastSent[c]
                 /\ delivered'[c] = delivered[c]
                 /\ databases'[c] = databases[c]]_vars

\* C24: D is opened for the first time with bundleSeqNo = b > 0 and the log holds
\* b+1..n without gaps: a connection is sent nothing until an opening push ends, and
\* then has been sent one message with the header, bundleSeqNo = b, the bundle and the
\* transactionLog b+1..n in order, with lastSeqNo = n and init = true afterwards; no
\* record with seqNo <= b is ever emitted
C24_OpenWithBundle ==
  \A c \in FanConns :
    LET n == MaxPresent
        q == [i \in 1..(n - bundleAt) |-> bundleAt + i]
    IN /\ \A i \in 1..Len(delivered[c]) : delivered[c][i] > bundleAt
       /\ lastSent[c] = NoMessage => /\ delivered[c] = <<>>
                                     /\ databases[c].lastSeqNo = 0
                                     /\ ~databases[c].init
       /\ (databases[c].open /\ PushesOf(pushes, c) = {}) => lastSent[c] # NoMessage
       /\ lastSent[c] # NoMessage =>
            /\ lastSent[c].hdr
            /\ lastSent[c].first
            /\ lastSent[c].bundleSeqNo = bundleAt
            /\ lastSent[c].transactionLog =
                 [i \in 1..Len(q) |-> WireItem(Item(q[i]))]
            /\ delivered[c] = q
            /\ databases[c].lastSeqNo = n
            /\ databases[c].init

\* the bundle is at 1 and the log holds 2 and 3: connection 1 was sent the bundle with
\* the transactionLog 2, 3 by its opening push
C24_Witness ==
  /\ bundleAt = 1
  /\ MaxPresent = 3
  /\ delivered[1] = <<2, 3>>
  /\ lastSent[1].hdr
  /\ lastSent[1].bundleSeqNo = 1
  /\ databases[1].lastSeqNo = 3

\* C25: rollback never overwrites: a Rollback sentinel appears at n only in a step that
\* starts with no record at n, and a record once present at n, written by the writer or
\* by a rollback, keeps its content in every step, also while several connections roll
\* back the same gap
C25_RollbackNeverOverwrites ==
  [][\A n \in SeqNos :
       /\ (log'[n].command = "Rollback" /\ log[n].command # "Rollback") =>
             log[n].command = "None"
       /\ log[n].command # "None" => /\ log'[n].command = log[n].command
                                     /\ log'[n].size = log[n].size
                                     /\ log[n].old => log'[n].old]_vars

\* pushes of both connections are rolling back the gap in front of 2, the sentinel at
\* 1 is written, and the put of the other push for slot 1 is still awaited
C25_Witness ==
  /\ log[1].command = "Rollback"
  /\ log[2].command = "Insert"
  /\ \E p \in PushIds : /\ p \in DOMAIN pushes
                        /\ pushes[p].pc = "put"
                        /\ pushes[p].rbNext = 1
                        /\ pushes[p].gapSeqNo = 2
  /\ \E c \in FanConns : \A p \in DOMAIN pushes : pushes[p].conn # c

\* C26: when the conditional put of a rollback for slot n fails because a record is
\* at n, the log is left as it is (no sentinel at n, the record at n and the sentinels
\* of the lower slots unchanged), the push ends without another put, and it emits
\* nothing and leaves every DatabaseState as it is
C26_PutFailureAbortsPush ==
  [][\A p \in PushIds :
       (/\ p \in DOMAIN pushes
        /\ pushes[p].pc = "put"
        /\ log[pushes[p].rbNext].command # "None"
        /\ RollbackPut(p))
       => /\ log' = log
          /\ pushes' = Without(pushes, p)
          /\ delivered' = delivered
          /\ lastSent' = lastSent
          /\ databases' = databases]_vars

\* a rollback of the window 1..2 wrote the sentinel at 1, and the writer's record
\* landed at 2 before the put for slot 2
C26_Witness ==
  \E p \in PushIds :
    /\ p \in DOMAIN pushes
    /\ pushes[p].pc = "put"
    /\ pushes[p].gapSeqNo = 3
    /\ pushes[p].lastSeqNo = 0
    /\ pushes[p].rbNext = 2
    /\ log[1].command = "Rollback"
    /\ log[2].command = "Insert"

\* C27: a rollback invoked for a window whose slots were all filled before its first
\* put (as after an earlier invocation for the same window) leaves the log exactly
\* as it is and makes no further put: it adds no sentinel and alters none
C27_RollbackIdempotent ==
  [][\A p \in PushIds :
       (/\ p \in DOMAIN pushes
        /\ pushes[p].pc = "put"
        /\ pushes[p].rbNext = pushes[p].lastSeqNo + 1
        /\ \A i \in (pushes[p].lastSeqNo + 1)..(pushes[p].gapSeqNo - 1) :
              log[i].command # "None"
        /\ RollbackPut(p))
       => /\ log' = log
          /\ \A q \in DOMAIN pushes' : pushes'[q].pc = "put" =>
                \E r \in DOMAIN pushes : r # p /\ pushes[r] = pushes'[q]]_vars

\* two rollbacks were invoked for the window 1..2; one has written both sentinels and
\* the other has not made its first put yet
C27_Witness ==
  \E p \in PushIds :
    /\ p \in DOMAIN pushes
    /\ pushes[p].pc = "put"
    /\ pushes[p].lastSeqNo = 0
    /\ pushes[p].gapSeqNo = 3
    /\ pushes[p].rbNext = 1
    /\ log[1].command = "Rollback"
    /\ log[2].command = "Rollback"

\* C28: missing entries are a silent no-op: the fan-out of a committed transaction
\* sends nothing to a connection without DatabaseState for D, starts no push on it and
\* changes nothing of it, and changes nothing at all when the user has no entry;
\* openDatabase and sendSeedRequest for a connection that is not in the registry, and
\* sendSeed for a user without sockets, emit nothing and change neither the registry
\* nor a Connection nor a DatabaseState
C28_MissingEntriesNoOp ==
  [][/\ \A n \in SeqNos : ConnectionsPush(n) =>
          /\ UNCHANGED <<sockets, uniqueClients, conns>>
          /\ DbOwner \notin DOMAIN sockets => UNCHANGED <<databases, pushes, delivered, lastSent>>
          /\ \A c \in ConnIds : ~databases[c].open =>
                /\ databases'[c] = databases[c]
                /\ delivered'[c] = delivered[c]
                /\ lastSent'[c] = lastSent[c]
                /\ PushesOf(pushes', c) = {}
     /\ \A c \in FanConns :
          ~(DbOwner \in DOMAIN sockets /\ c \in sockets[DbOwner]) =>
             /\ openDatabase(DbOwner, c, NoReopen) =>
                   UNCHANGED <<sockets, uniqueClients, conns, databases, pushes,
                               delivered, lastSent>>
             /\ sendSeedRequest(DbOwner, c, SenderKey) =>
                   /\ lastOp'.emitted = NoEmit
                   /\ UNCHANGED <<sockets, uniqueClients, conns, databases, pushes,
                                  delivered, lastSent>>
     /\ (sendSeed(DbOwner, SenderKey, SenderKey)
           /\ (DbOwner \in DOMAIN sockets => sockets[DbOwner] = {})) =>
          /\ lastOp'.emitted = NoEmit
          /\ UNCHANGED <<sockets, uniqueClients, conns, databases, pushes,
                         delivered, lastSent>>]_vars

\* transaction 1 was fanned out: connection 1, which had D open, was sent it, and
\* connection 2 has no DatabaseState and was sent nothing; connection 2 then closed and
\* a seed request named it
C28_Witness ==
  /\ log[1].command = "Insert"
  /\ pendingFan = {}
  /\ delivered[1] = <<1>>
  /\ ~databases[2].open
  /\ lastSent[2] = NoMessage
  /\ DbOwner \in DOMAIN sockets
  /\ sockets[DbOwner] = {1}
  /\ lastOp.op = "sendSeedRequest"
  /\ lastOp.conn = 2
  /\ ~lastOp.wasRegistered

\* C29: once close has run for a connection (its clientId has left uniqueClients and
\* no socket registers again), it is in no user's sockets and nothing is dispatched
\* to it: no step starts a push on it, no seed operation sends on its socket or changes the
\* Connection, and its socket is sent a message, or its DatabaseState changes, only
\* in a step that ends a push that was in flight on it
C29_NoDispatchAfterClose ==
  [][\A c \in FanConns :
       conns[c].clientId \notin uniqueClients =>
          /\ ~(\E u \in DOMAIN sockets : c \in sockets[u])
          /\ Cardinality(PushesOf(pushes', c)) <= Cardinality(PushesOf(pushes, c))
          /\ conns'[c] = conns[c]
          /\ lastOp' # lastOp => lastOp'.emitted[c] = <<>>
          /\ Cardinality(PushesOf(pushes', c)) = Cardinality(PushesOf(pushes, c)) =>
                /\ databases'[c] = databases[c]
                /\ delivered'[c] = delivered[c]
                /\ lastSent'[c] = lastSent[c]]_vars

\* connection 2 had D open and a seed request of its own when it closed; transaction 1
\* was then fanned out to connection 1 only, and a seed was sent for the user
C29_Witness ==
  /\ DbOwner \in DOMAIN sockets
  /\ sockets[DbOwner] = {1}
  /\ databases[2].open
  /\ databases[2].init
  /\ databases[2].lastSeqNo = 0
  /\ conns[2].requesterPublicKey = SenderKey
  /\ log[1].command = "Insert"
  /\ pendingFan = {}
  /\ delivered[1] = <<1>>
  /\ delivered[2] = <<>>
  /\ lastOp.op = "sendSeed"
  /\ lastOp.emitted[2] = <<>>

\* the handler of message m is past the queue: it awaits inside lines 175-194, or has
\* ended behind them
PastQueue(m) == \E i \in 1..Len(started) : started[i] = m

C38_QueueMakesProgress ==
  \A m \in MsgIds : handlers[m].pc = "waiting" =>
     /\ \E k \in 1..(m - 1) : handlers[k].pc \in Awaiting \cup {"resolved"}
     /\ \A k \in 1..(m - 1) : handlers[k].pc # "threw"

\* C36: the unbundled-size counter stays under the threshold: every DatabaseState has
\* 0 <= transactionLogSize < TRANSACTION_SIZE_BUNDLE_TRIGGER in every reachable state,
\* and the counter changes only in a step in which sendPayload sends transactions on
\* that connection
C36_LogSizeUnderTrigger ==
  /\ [](\A c \in ConnIds :
          /\ 0 <= databases[c].transactionLogSize
          /\ databases[c].transactionLogSize < TRANSACTION_SIZE_BUNDLE_TRIGGER)
  /\ [][\A c \in ConnIds :
          databases'[c].transactionLogSize # databases[c].transactionLogSize =>
             /\ Len(delivered'[c]) > Len(delivered[c])
             /\ lastSent'[c].transactionLog # <<>>]_vars

\* a connection was sent transactions whose sizes reached the trigger: the message
\* asked for a bundle and the counter is back at 0
C36_Witness ==
  \E c \in FanConns :
    /\ lastSent[c] # NoMessage
    /\ lastSent[c].buildBundle
    /\ Len(delivered[c]) >= 2
    /\ databases[c].transactionLogSize = 0

\* C35: Connections.openDatabase creates the DatabaseState only when the connection has
\* none for D: bundleSeqNo is the stored one, or -1 when that is not positive,
\* lastSeqNo is reopenAtSeqNo or 0, transactionLogSize is 0 and init says whether
\* reopenAtSeqNo was given; on a connection that has D open it leaves the DatabaseState
\* as it is; either way it starts one push and sends nothing itself
C35_OpenDoesNotReset ==
  [][\A r \in ReopenAts : openDatabase(DbOwner, 1, r) =>
       /\ IF ~databases[1].open
          THEN /\ databases'[1].open
               /\ databases'[1].bundleSeqNo = (IF bundleAt > 0 THEN bundleAt ELSE -1)
               /\ databases'[1].lastSeqNo = (IF r = NoReopen THEN 0 ELSE r)
               /\ databases'[1].transactionLogSize = 0
               /\ databases'[1].init = (r # NoReopen)
          ELSE databases'[1] = databases[1]
       /\ Len(pushes') = Len(pushes) + 1
       /\ pushes'[Len(pushes')].reopenAt = r
       /\ \A p \in DOMAIN pushes : pushes'[p] = pushes[p]
       /\ UNCHANGED <<delivered, lastSent>>]_vars

\* D was opened again on a connection whose DatabaseState had advanced: the state is
\* as it was and the second opening push starts from its lastSeqNo
C35_Witness ==
  /\ opens = 2
  /\ databases[1].lastSeqNo >= 1
  /\ databases[1].init
  /\ \E p \in DOMAIN pushes : /\ pushes[p].opening
                              /\ pushes[p].seqNoParam = databases[1].lastSeqNo

\* C34: cross-user isolation: the fan-out of a transaction of the owner's database, a
\* seed request and a seed delivery for a user send messages only on sockets
\* registered under that user and change only Connections registered under that user;
\* what the connections of another user hold and were sent stays as it is
C34_CrossUserIsolation ==
  [][/\ \A n \in SeqNos : ConnectionsPush(n) =>
          /\ conns' = conns
          /\ \A c \in ConnIds : c \notin sockets[DbOwner] =>
                /\ databases'[c] = databases[c]
                /\ delivered'[c] = delivered[c]
                /\ lastSent'[c] = lastSent[c]
                /\ Cardinality(PushesOf(pushes', c)) = Cardinality(PushesOf(pushes, c))
     /\ (lastOp' # lastOp /\ lastOp'.op \in {"sendSeedRequest", "sendSeed"}) =>
          \A c \in ConnIds : c \notin sockets[lastOp'.userId] =>
                /\ lastOp'.emitted[c] = <<>>
                /\ conns'[c] = conns[c]
                /\ databases'[c] = databases[c]
                /\ delivered'[c] = delivered[c]
                /\ lastSent'[c] = lastSent[c]]_vars

\* both users' sockets hold a seed request with the key k1; the seed sent for the
\* owner's request went to the owner's socket only, after a transaction of the owner
\* was fanned out to the owner's socket only
C34_Witness ==
  /\ conns[1].requesterPublicKey = "k1"
  /\ conns[2].requesterPublicKey = "k1"
  /\ lastOp.op = "sendSeed"
  /\ lastOp.userId = DbOwner
  /\ lastOp.key = "k1"
  /\ lastOp.emitted[1] # <<>>
  /\ lastOp.emitted[2] = <<>>
  /\ delivered[1] = <<1>>
  /\ delivered[2] = <<>>

\* C32: username protection after the seed is saved, as the claim words it: a signUp
\* that reaches the put while the item still has seed-not-saved-yet replaces the item
\* by its own; and once some validateKey has removed seed-not-saved-yet, every later
\* signUp leaves the item as it is and, when it reaches the put and the store
\* answers, is answered Conflict 'UsernameAlreadyExists'
C32_UsernameProtected ==
  /\ [][\A k \in PubKeys, o \in {"ok", "SessionError"} :
          (signUp(k, "ok", o) /\ users # NoUser /\ users.seedNotSavedYet) =>
             users' = SignUpItem(SignUpIds[issued + 1], k)]_vars
  /\ [][\A k \in PubKeys, r \in SignUpRequests, o \in SignUpOutcomes :
          (signUp(k, r, o) /\ seedSaved # {}) =>
             /\ users' = users
             /\ (r = "ok" /\ o # "PutError") =>
                   lastOp'.ret = "Conflict: UsernameAlreadyExists"]_vars

\* C32 amended: the same, for as long as the key holds the item whose seed was saved
\* (updateUser with a new username deletes the item of the old key)
C32_UsernameProtectedWhileItemStays ==
  /\ [][\A k \in PubKeys, o \in {"ok", "SessionError"} :
          (signUp(k, "ok", o) /\ users # NoUser /\ users.seedNotSavedYet) =>
             users' = SignUpItem(SignUpIds[issued + 1], k)]_vars
  /\ [][\A k \in PubKeys, r \in SignUpRequests, o \in SignUpOutcomes :
          (signUp(k, r, o) /\ users # NoUser /\ ~users.seedNotSavedYet) =>
             /\ users' = users
             /\ (r = "ok" /\ o # "PutError") =>
                   lastOp'.ret = "Conflict: UsernameAlreadyExists"]_vars

\* a signUp was answered Conflict by the item of a user that saved its seed after it
\* had replaced the unsaved item of an earlier sign-up
C32_Witness ==
  /\ lastOp.op = "signUp"
  /\ lastOp.ret = "Conflict: UsernameAlreadyExists"
  /\ users.userId \in seedSaved
  /\ ~users.seedNotSavedYet
  /\ overwritten # {}
  /\ lastOp.userId # users.userId

\* C37: competing sign-ups: a user id whose unsaved item was replaced by a later
\* signUp never has a key-validated connection, so of two sign-ups that claimed the
\* key before either saved its seed at most one completes validateKey; and every
\* validateKey for such a user id leaves the stored item and every connection as
\* they are and, when its message matches and the store answers, is answered
\* Unauthorized 'Invalid seed'
C37_CompetingSignUps ==
  /\ [](\A u \in overwritten : ~KeyValidated(u))
  /\ [][\A c \in ConnIds, up \in {Base64(<<255>>), <<255>>}, f \in BOOLEAN :
          (validateKeyOfUser(<<255>>, up, c, f) /\ userOf[c].userId \in overwritten) =>
             /\ users' = users
             /\ conns' = conns
             /\ lastOp'.ret # "Success!"
             /\ (lastOp'.matched /\ ~f) => lastOp'.ret = "Unauthorized: Invalid seed"]_vars

\* the user id whose item was replaced was answered 'Invalid seed' on a connection
\* that stays unvalidated, while the user id that replaced it has validated its key
C37_Witness ==
  /\ lastOp.op = "validateKey"
  /\ lastOp.ret = "Unauthorized: Invalid seed"
  /\ lastOp.userId \in overwritten
  /\ ~conns[lastOp.conn].keyValidated
  /\ users.userId # lastOp.userId
  /\ users.publicKey = userOf[lastOp.conn].publicKey
  /\ KeyValidated(users.userId)

\* C31: requestSeed never overwrites an exchange, as the claim words it: a step of a
\* requestSeed call changes no item that exists, and creates only an item without
\* encrypted-seed; when the item it read holds an encrypted-seed the call returns
\* that seed and nothing is sent; when the item holds none, or was just created, the
\* request is sent to every key-validated connection of the user; and a call without
\* requesterPublicKey returns Bad Request and neither writes nor sends
C31_RequestNeverOverwrites ==
  [][\A c \in ConnIds :
       (seedCalls'[c] # seedCalls[c] /\ seedCalls'[c].op = "requestSeed") =>
          LET call == seedCalls[c]
              after == seedCalls'[c]
              reads == call.pc = "put" /\ after.pc = "get"
              returns == after.pc = "idle" /\ call.pc \in {"put", "get"}
              sends == returns /\ (call.answer = "ok" \/ (call.pc = "get" /\ call.answer = NoSeed))
          IN /\ \A k \in PubKeys :
                  /\ seedExchange[k] # NoExchange => seedExchange'[k] = seedExchange[k]
                  /\ seedExchange'[k] \in {seedExchange[k], NoSeed}
             /\ reads => after.answer = seedExchange[call.key]
             /\ (returns /\ call.pc = "get" /\ call.answer \in Seeds) =>
                   /\ after.ret = "encryptedSeed" /\ after.seed = call.answer
                   /\ lastOp' = lastOp /\ inbox' = inbox
             /\ sends =>
                   /\ after.ret = "Successfully sent out request for seed!"
                   /\ lastOp'.op = "sendSeedRequest" /\ lastOp'.key = call.key
                   /\ \A d \in sockets[DbOwner] :
                         conns[d].keyValidated =>
                            /\ lastOp'.emitted[d] # <<>>
                            /\ call.key \in inbox'[d]
             /\ after.key = NoKey =>
                   /\ after.ret = "Bad Request: Missing requester public key"
                   /\ seedExchange' = seedExchange
                   /\ lastOp' = lastOp /\ inbox' = inbox]_vars

\* C31 amended: the same, the request being sent when the requesting connection is
\* still registered; when it was closed while requestSeed awaited the store, nothing
\* is sent
C31_RequestNeverOverwritesWhileRegistered ==
  [][\A c \in ConnIds :
       (seedCalls'[c] # seedCalls[c] /\ seedCalls'[c].op = "requestSeed") =>
          LET call == seedCalls[c]
              after == seedCalls'[c]
              reads == call.pc = "put" /\ after.pc = "get"
              returns == after.pc = "idle" /\ call.pc \in {"put", "get"}
              sends == returns /\ (call.answer = "ok" \/ (call.pc = "get" /\ call.answer = NoSeed))
          IN /\ \A k \in PubKeys :
                  /\ seedExchange[k] # NoExchange => seedExchange'[k] = seedExchange[k]
                  /\ seedExchange'[k] \in {seedExchange[k], NoSeed}
             /\ reads => after.answer = seedExchange[call.key]
             /\ (returns /\ call.pc = "get" /\ call.answer \in Seeds) =>
                   /\ after.ret = "encryptedSeed" /\ after.seed = call.answer
                   /\ lastOp' = lastOp /\ inbox' = inbox
             /\ sends =>
                   /\ after.ret = "Successfully sent out request for seed!"
                   /\ lastOp'.op = "sendSeedRequest" /\ lastOp'.key = call.key
                   /\ \A d \in sockets[DbOwner] :
                         IF c \in sockets[DbOwner] /\ conns[d].keyValidated
                         THEN lastOp'.emitted[d] # <<>> /\ call.key \in inbox'[d]
                         ELSE lastOp'.emitted[d] = <<>> /\ inbox'[d] = inbox[d]
             /\ after.key = NoKey =>
                   /\ after.ret = "Bad Request: Missing requester public key"
                   /\ seedExchange' = seedExchange
                   /\ lastOp' = lastOp /\ inbox' = inbox]_vars

\* a requestSeed found the item of its key holding the seed a sender stored during
\* this run and returned that seed, the item being as it was
C31_Witness ==
  \E c \in FanConns :
     /\ seedCalls[c].op = "requestSeed"
     /\ seedCalls[c].ret = "encryptedSeed"
     /\ seedCalls[c].seed = "e2"
     /\ seedExchange[seedCalls[c].key] = "e2"
     /\ obtained[c] = {"e2"}

\* connection c has requested the seed for requesterPublicKey: its requestSeed has
\* put the item or found it there, and has not failed
Requested(c, requesterPublicKey) ==
  /\ seedCalls[c].op = "requestSeed"
  /\ seedCalls[c].key = requesterPublicKey
  /\ seedCalls[c].answer # "Error"
  /\ seedCalls[c].ret \notin {"Internal Server Error: Failed to request seed",
                              "Bad Request: Missing requester public key"}

\* C33: the seed exchange completes despite races: once the sendSeed of a validated
\* device for the request of connection c has succeeded, c eventually is given the
\* encrypted seed (as ReceiveSeed message or in the response of its requestSeed) or
\* is no longer connected
C33_SeedExchangeCompletes ==
  \A c \in FanConns, k \in PubKeys :
     (Requested(c, k) /\ \E s \in FanConns : conns[s].keyValidated /\ k \in sentSeedTo[s])
        ~> (obtained[c] # {} \/ c \notin sockets[DbOwner])

====
